---------------------------- MODULE Spec2Model ----------------------------
(***************************************************************************)
(* Model of the agent session protocol engine of codex-mcp-orchestra:      *)
(*   - services/mcp_sse_client.py : MCPSSEClient (identifier counter,      *)
(*     send_prompt, list_tools, health_check)                              *)
(*   - mcp/codex-mcp-gateway.py   : CodexGateway (filter_stdout,           *)
(*     convert_event)                                                      *)
(*                                                                         *)
(* Encoding of Python / JSON values                                        *)
(*   - a JSON object (Python dict) is a TLA+ record; d.get(k, default) is  *)
(*     Get(d, k, default); "k in d" is k \in DOMAIN d; {} is EmptyDict.    *)
(*   - a JSON string is a TLA+ string; str + str is \o.                    *)
(*   - JSON null / Python None in a text field is the reserved string      *)
(*     None; in an object-valued place it is PyNone.                       *)
(*   - a method name "a/b" is the tuple of its "/"-separated segments      *)
(*     <<"a", "b">>, so that startswith("notifications/") and the          *)
(*     f-string f"notifications/{event_type}" are computed, not assumed.   *)
(***************************************************************************)
EXTENDS Integers, Sequences, FiniteSets, TLC

VARIABLES
    \* ---- MCPSSEClient, shared by every call --------------------------
    _message_id,        \* self._message_id
    \* ---- concurrent calls on one client (identifier counter) ---------
    callPc,             \* per call: position of the coroutine
    callKind,           \* per call: "send_prompt" or "list_tools"
    callServer,         \* per call: its server_name argument ("" before the call)
    _client_instance,   \* the module's singleton: "None" | "MCPSSEClient"
    issued,             \* history: <<call, value>> for each _get_next_id return
    \* ---- CodexGateway.filter_stdout ----------------------------------
    sys_stdout,         \* lines written to the gateway's own stdout
    sys_stderr,         \* diagnostics printed to the gateway's own stderr
    filter_task,        \* "running" | "ended": the filter_stdout coroutine
    gw_trace,           \* history: per subprocess line, what it produced
    \* ---- CodexGateway.start / shutdown: the gateway and its subprocess
    process,            \* self.process: running, or exited with a returncode
    exit_code,          \* self.exit_code
    exit_status,        \* the status the gateway process ended with
    gateway,            \* "running" (in start) | "stopped" (sys.exit done)
    stdin_task,         \* "reading" | "done": the forward_stdin coroutine
    stderr_task,        \* "reading" | "done": the forward_stderr coroutine
    caller_stdin,       \* "open" | "eof": the gateway's own stdin
    stdin_lines,        \* number of lines forwarded to the subprocess
    shutdown_tasks,     \* per signal received: position of its shutdown task
    proc_signals,       \* history: "terminate" / "kill" sent to the subprocess
    \* ---- one send_prompt call: its arguments and environment ---------
    stream,             \* the stream argument
    fronted,            \* the agent server runs behind codex-mcp-gateway
    pc,                 \* "start" | "connected" | "done"
    \* ---- one send_prompt call: its local variables -------------------
    prompt_request_id,
    init_request_id,
    endpoint_url,
    prompt_sent,
    task_complete,
    collected_result,
    session_configured,
    reasoning_chunks,
    message_chunks,
    has_tool_error,
    \* ---- one send_prompt call: what it did ---------------------------
    yielded,            \* the elements the generator has yielded, in order
    posted,             \* the requests POSTed to the endpoint, in order
    sent,               \* history: lines the agent server wrote after the prompt
    received,           \* history: the data of the message events delivered
    ending,             \* how the call ended ("" while it runs)
    \* ---- health_check and the list_tools call it awaits --------------
    status,             \* health_check's status dict (server -> entry)
    hc_next,            \* index in self.servers of the server probed next
    lt_pc,              \* list_tools: "idle" | "connected"
    lt_request_id,      \* list_tools: request["id"]
    lt_endpoint_url,    \* list_tools: endpoint_url
    lt_request_sent,    \* list_tools: request_sent
    lt_posted,          \* history: the requests list_tools POSTed, in order
    lt_outcome,         \* history: per server, how its list_tools call ended
    \* ---- send_prompt: the push-event connection and the wait of line 209
    sse_log,            \* history: "open" / "close" of aconnect_sse's stream
    endpoint_events,    \* history: endpoint events the loop has been given
    wait_pc,            \* "handshake" | "polling" | "sending" | "sent"
    wait_ticks,         \* sleeps of 0.1 s done by the loop of line 209
    marker_tick,        \* wait_ticks when session_configured was delivered
    \* ---- the bridge: clock, session manager, voice and email handlers
    now,                \* datetime.now(), in minutes since the bridge started
    sessions,           \* _session_manager.sessions (session_id -> session)
    session_trace,      \* history: the last get_session / get_or_create_session call
    voice_pc,           \* handle_voice_command: "idle" | "awaiting" (send_to_mcp)
    voice_request,      \* the voice command in flight, its server and context
    voice_reply,        \* history: what the last voice command answered
    processed_message_ids,  \* bridge.processed_message_ids
    last_cleanup,       \* bridge.last_cleanup
    email_pc,           \* per /email/route request: "idle" | "parsing"
    routed              \* history: <<message id, time>> of each routed message

gwVars == <<sys_stdout, sys_stderr, filter_task, gw_trace>>
lifeVars == <<process, exit_code, exit_status, gateway, stdin_task,
                   stderr_task,
              caller_stdin, stdin_lines, shutdown_tasks, proc_signals>>
idVars == <<_message_id, callPc, callKind, callServer, issued,
            _client_instance>>
argVars == <<stream, fronted>>
localVars == <<prompt_request_id, init_request_id, endpoint_url, prompt_sent,
               task_complete, collected_result, session_configured,
               reasoning_chunks, message_chunks, has_tool_error>>
connVars == <<sse_log, endpoint_events>>
waitVars == <<wait_pc, wait_ticks, marker_tick>>
sessionVars == <<sessions, session_trace>>
voiceVars == <<voice_pc, voice_request, voice_reply>>
emailVars == <<processed_message_ids, last_cleanup, email_pc, routed>>
bridgeVars == <<now, sessions, session_trace, voice_pc, voice_request,
                voice_reply, processed_message_ids, last_cleanup, email_pc,
                routed>>
promptVars == <<stream, fronted, pc, prompt_request_id, init_request_id,
                endpoint_url, prompt_sent, task_complete, collected_result,
                session_configured, reasoning_chunks, message_chunks,
                has_tool_error, yielded, posted, sent, received, ending,
                sse_log, endpoint_events, wait_pc, wait_ticks, marker_tick>>
healthVars == <<status, hc_next, lt_pc, lt_request_id, lt_endpoint_url,
                lt_request_sent, lt_posted, lt_outcome>>
vars == <<_message_id, callPc, callKind, callServer, issued, _client_instance,
          sys_stdout, sys_stderr, filter_task, gw_trace,
          process, exit_code, exit_status, gateway, stdin_task, stderr_task,
          caller_stdin, stdin_lines, shutdown_tasks, proc_signals,
          stream, fronted, pc, prompt_request_id, init_request_id,
          endpoint_url, prompt_sent, task_complete, collected_result,
          session_configured, reasoning_chunks, message_chunks,
          has_tool_error, yielded, posted, sent, received, ending,
          sse_log, endpoint_events, wait_pc, wait_ticks, marker_tick,
          status, hc_next, lt_pc, lt_request_id, lt_endpoint_url,
          lt_request_sent, lt_posted, lt_outcome,
          now, sessions, session_trace, voice_pc, voice_request,
          voice_reply, processed_message_ids, last_cleanup, email_pc,
          routed>>

---------------------------------------------------------------------------
(* Bounds *)
MaxLines == 2       \* subprocess output lines fed to filter_stdout
MaxEvents == 3      \* lines the agent server writes after the prompt is sent
NumCalls == 3       \* calls in flight on one client
MaxSignals == 2     \* termination signals delivered to the gateway
MaxStdin == 1       \* lines the caller writes to the gateway's stdin
MaxEndpoints == 2   \* endpoint events one send_prompt call is given

---------------------------------------------------------------------------
(* Python / JSON helpers *)

None == "<None>"
PyNone == [py_none |-> TRUE]
EmptyDict == <<>>

Get(d, k, default) == IF k \in DOMAIN d THEN d[k] ELSE default

\* Python truthiness of a text value (None and "" are falsy)
Truthy(s) == s # None /\ s # ""

---------------------------------------------------------------------------
(* Wire vocabulary *)

CodexEventMethod == <<"codex", "event">>

\* {"jsonrpc":"2.0","method":"codex/event","params":{"msg": msg}}
CodexEvent(msg) ==
    [jsonrpc |-> "2.0", method |-> CodexEventMethod, params |-> [msg |-> msg]]

\* inner payloads of native events the agent subprocess is seen to emit
MsgSessionConfigured == [type |-> "session_configured"]
MsgDelta(t) == [type |-> "agent_message_delta", delta |-> t]
MsgReasoning(t) == [type |-> "agent_reasoning_delta", delta |-> t]
MsgRawReasoning(t) == [type |-> "agent_reasoning_raw_content_delta", delta |-> t]
MsgToolBegin == [type |-> "mcp_tool_call_begin", call_id |-> "c1"]
MsgToolEndErr == [type |-> "mcp_tool_call_end", call_id |-> "c1",
                  result |-> [error |-> "boom"]]
MsgToolEndOk == [type |-> "mcp_tool_call_end", call_id |-> "c1",
                 result |-> [ok |-> "fine"]]
MsgTaskComplete(t) == [type |-> "task_complete", last_agent_message |-> t]
MsgTaskCompleteBare == [type |-> "task_complete"]
MsgCustom == [type |-> "custom_thing", foo |-> 1]
MsgUntyped == [note |-> "no type field"]


---------------------------------------------------------------------------
(* codex-mcp-gateway.py : lines of the subprocess's stdout                 *)
(*                                                                         *)
(* A line is described by what filter_stdout can observe of it:            *)
(*   indent  - whitespace around the content (removed by strip())          *)
(*   kind    - "blank": nothing but whitespace; "text": content that       *)
(*             starts with neither '{' nor '['; "json": content that       *)
(*             starts with '{' or '['                                      *)
(*   open    - for "json": the first character                             *)
(*   phrases - the notable substrings the content contains                 *)
(*   valid   - for "json": json.loads accepts the content                  *)
(*   compact - for "json": written with separators (",", ":")              *)
(*   obj     - for valid "json": the value json.loads returns              *)

\* BANNER_HINTS with one phrase lost (faulty variant)
BANNER_HINTS_short == {"MCP Doc Forge Server", "Starting", "Listening"}

BANNER_HINTS == {"MCP Doc Forge Server", "Server is running", "Starting", "Listening"}

BlankLine(ind) ==
    [indent |-> ind, kind |-> "blank", open |-> "", phrases |-> {},
     valid |-> FALSE, compact |-> FALSE, obj |-> EmptyDict]
TextLine(ind, ph) ==
    [indent |-> ind, kind |-> "text", open |-> "", phrases |-> ph,
     valid |-> FALSE, compact |-> FALSE, obj |-> EmptyDict]
JsonLine(ind, cmp, o) ==
    [indent |-> ind, kind |-> "json", open |-> "{", phrases |-> {},
     valid |-> TRUE, compact |-> cmp, obj |-> o]
ArrayLine(items) ==
    [indent |-> FALSE, kind |-> "json", open |-> "[", phrases |-> {},
     valid |-> TRUE, compact |-> TRUE, obj |-> items]
BrokenLine(op, ph) ==
    [indent |-> FALSE, kind |-> "json", open |-> op, phrases |-> ph,
     valid |-> FALSE, compact |-> FALSE, obj |-> EmptyDict]

\* line.decode('utf-8').strip()
strip(line) == [line EXCEPT !.indent = FALSE]

\* line_str.startswith(c)
startswith(line_str, c) == line_str.kind = "json" /\ line_str.open = c

\* any(hint in line_str for hint in BANNER_HINTS)
any_hint(line_str) == line_str.phrases \cap BANNER_HINTS # {}

\* json.dumps(obj) + "\n", with the default separators (faulty variant)
dumps_spaced(o) == JsonLine(FALSE, FALSE, o)

\* json.dumps(obj, separators=(",", ":")) + "\n"
dumps(o) == JsonLine(FALSE, TRUE, o)

\* json.loads(line_str), for a line json.loads accepts
loads(line_str) == line_str.obj

\* convert_event, "Task completion - preserve original structure" (faulty
\* variant: re-encoded like the delta events)
convert_task_complete_reencoded(obj) ==
    [jsonrpc |-> "2.0", method |-> <<"notifications", "task_complete">>,
     params |-> Get(Get(obj, "params", EmptyDict), "msg", EmptyDict)]

\* convert_event, "Task completion - preserve original structure"
convert_task_complete(obj) == obj

\* convert_event, "Other events as structured data" (faulty variant: only the type
\* of the event is kept)
convert_other_type_only(msg) ==
    [jsonrpc |-> "2.0", method |-> <<"notifications", "message">>,
     params |-> [level |-> "info", data |-> [type |-> Get(msg, "type", None)],
                 logger |-> "codex"]]

\* convert_event, "Other events as structured data"
convert_other(msg) ==
    [jsonrpc |-> "2.0", method |-> <<"notifications", "message">>,
     params |-> [level |-> "info", data |-> msg, logger |-> "codex"]]

\* CodexGateway.convert_event
convert_event(obj) ==
    LET params == Get(obj, "params", EmptyDict)
        msg == Get(params, "msg", EmptyDict)
        event_type == Get(msg, "type", None)
    IN  IF event_type = "session_configured" THEN PyNone
        ELSE IF event_type = "agent_message_delta" THEN
            [jsonrpc |-> "2.0", method |-> <<"notifications", event_type>>,
             params |-> [type |-> event_type, delta |-> Get(msg, "delta", "")]]
        ELSE IF event_type \in {"agent_reasoning_delta",
                                "agent_reasoning_raw_content_delta"} THEN
            [jsonrpc |-> "2.0", method |-> <<"notifications", event_type>>,
             params |-> [type |-> event_type, delta |-> Get(msg, "delta", "")]]
        ELSE IF event_type \in {"mcp_tool_call_begin", "mcp_tool_call_end"} THEN
            [jsonrpc |-> "2.0", method |-> <<"notifications", event_type>>,
             params |-> msg]
        ELSE IF event_type = "task_complete" THEN convert_task_complete(obj)
        ELSE convert_other(msg)

\* One iteration of the loop of CodexGateway.filter_stdout on `line`:
\* out - lines written to sys.stdout, err - entries printed to sys.stderr,
\* ended - the loop was left through the outer "except Exception".
filter_line(line) ==
    LET line_str == strip(line) IN
    IF line_str.kind = "blank"
       \/ (~startswith(line_str, "{") /\ ~startswith(line_str, "[")) THEN
        [out |-> <<>>,
         err |-> IF any_hint(line_str)
                 THEN <<[tag |-> "dropped banner", line |-> line_str]>>
                 ELSE <<>>,
         ended |-> FALSE]
    ELSE IF ~line_str.valid THEN
        [out |-> <<>>,
         err |-> <<[tag |-> "invalid JSON", line |-> line_str]>>,
         ended |-> FALSE]
    ELSE IF line_str.open = "[" THEN
        \* json.loads returns a list; obj.get raises AttributeError, which
        \* only the outer handler catches: the loop ends
        [out |-> <<>>,
         err |-> <<[tag |-> "stdout error", line |-> line_str]>>,
         ended |-> TRUE]
    ELSE
        LET obj == loads(line_str) IN
        IF Get(obj, "method", <<>>) = CodexEventMethod THEN
            LET converted == convert_event(obj) IN
            IF converted = PyNone
            THEN [out |-> <<>>, err |-> <<>>, ended |-> FALSE]
            ELSE [out |-> <<dumps(converted)>>, err |-> <<>>, ended |-> FALSE]
        ELSE [out |-> <<dumps(obj)>>, err |-> <<>>, ended |-> FALSE]

\* native inner payloads fed to the gateway
NativeMsgs ==
    {MsgSessionConfigured, MsgDelta("Hel"), MsgReasoning("th"),
     MsgRawReasoning("raw"), MsgToolBegin, MsgToolEndErr, MsgToolEndOk,
     MsgTaskComplete("Done"), MsgTaskComplete(None), MsgTaskCompleteBare,
     MsgCustom, MsgUntyped}

\* a JSON-RPC response and a foreign notification, as the subprocess writes them
ResponseObj(i, payload) == [jsonrpc |-> "2.0", id |-> i, result |-> payload]
OtherNotification ==
    [jsonrpc |-> "2.0", method |-> <<"notifications", "progress">>,
     params |-> [progress |-> "half"]]

\* the lines the subprocess may write
SubprocessLines ==
    {BlankLine(FALSE), BlankLine(TRUE)}
    \cup {TextLine(FALSE, {"Server is running"}),
          TextLine(TRUE, {"Starting", "MCP Doc Forge Server"}),
          TextLine(FALSE, {"Listening"}),
          TextLine(FALSE, {}), TextLine(FALSE, {"error:"})}
    \cup {JsonLine(FALSE, TRUE, CodexEvent(m)) : m \in NativeMsgs}
    \cup {JsonLine(TRUE, FALSE, CodexEvent(MsgTaskComplete("Done"))),
          JsonLine(FALSE, FALSE, CodexEvent(MsgCustom)),
          JsonLine(FALSE, TRUE, ResponseObj(1, [tools |-> <<>>])),
          JsonLine(FALSE, FALSE, OtherNotification)}
    \cup {BrokenLine("{", {}), BrokenLine("[", {"Starting"}), ArrayLine(<<"a">>)}

\* no call made by the process
CallsIdle ==
    /\ callPc = [c \in 1..NumCalls |-> "idle"]
    /\ callKind = [c \in 1..NumCalls |-> "send_prompt"]
    /\ callServer = [c \in 1..NumCalls |-> ""]
    /\ issued = <<>>

\* MCPSSEClient.__init__, no call made
ClientIdle ==
    /\ _client_instance = "MCPSSEClient"
    /\ _message_id = 1
    /\ CallsIdle

\* line 683, the module imported: no client exists, and no counter (0)
ModuleLoaded ==
    /\ _client_instance = "None"
    /\ _message_id = 0
    /\ CallsIdle

NoUrl == ""
NoMarker == 0 - 1   \* session_configured was not delivered

\* send_prompt not yet run: its locals as lines 165-179 set them, nothing
\* yielded, posted or received
PromptCallFresh ==
    /\ pc = "start"
    /\ prompt_request_id = 0
    /\ init_request_id = 0
    /\ endpoint_url = NoUrl
    /\ prompt_sent = FALSE
    /\ task_complete = FALSE
    /\ collected_result = PyNone
    /\ session_configured = FALSE
    /\ reasoning_chunks = <<>>
    /\ message_chunks = <<>>
    /\ has_tool_error = FALSE
    /\ yielded = <<>>
    /\ posted = <<>>
    /\ sent = <<>>
    /\ received = <<>>
    /\ ending = ""
    /\ sse_log = <<>>
    /\ endpoint_events = 0
    /\ wait_pc = "handshake"
    /\ wait_ticks = 0
    /\ marker_tick = NoMarker

\* no send_prompt call is made
NoPromptCall == stream = FALSE /\ fronted = FALSE /\ PromptCallFresh

\* the keys of self.servers, in the order __init__ inserts them
ServerNames == <<"router", "office", "analyst">>

\* concurrent POST /email/route requests the model follows
NumEmailRequests == 2

NoTrace == [op |-> "none"]
NoRequest == [kind |-> "none"]
NoReply == [kind |-> "none"]

\* bridge.py imported and the session manager constructed with no session
\* file: no session, no command in flight, no message id processed,
\* last_cleanup = the time of the import
BridgeStarted ==
    /\ now = 0
    /\ sessions = EmptyDict
    /\ session_trace = NoTrace
    /\ voice_pc = "idle"
    /\ voice_request = NoRequest
    /\ voice_reply = NoReply
    /\ processed_message_ids = {}
    /\ last_cleanup = 0
    /\ email_pc = [r \in 1..NumEmailRequests |-> "idle"]
    /\ routed = <<>>

\* health_check not yet run: status = {}, no list_tools call in flight
HealthCheckFresh ==
    /\ status = EmptyDict
    /\ hc_next = 1
    /\ lt_pc = "idle"
    /\ lt_request_id = 0
    /\ lt_endpoint_url = NoUrl
    /\ lt_request_sent = FALSE
    /\ lt_posted = <<>>
    /\ lt_outcome = EmptyDict

\* self.process while the subprocess runs (returncode is None) and after
Running == [state |-> "running"]
Exited(returncode) == [state |-> "exited", returncode |-> returncode]

\* CodexGateway.start up to asyncio.gather: the subprocess runs, the three
\* I/O coroutines are scheduled, nothing was written, no signal was received
NoStatus == 0 - 1   \* the gateway process has not ended
GatewayStarted ==
    /\ sys_stdout = <<>>
    /\ sys_stderr = <<>>
    /\ filter_task = "running"
    /\ gw_trace = <<>>
    /\ process = Running
    /\ exit_code = 0
    /\ exit_status = NoStatus
    /\ gateway = "running"
    /\ stdin_task = "reading"
    /\ stderr_task = "reading"
    /\ caller_stdin = "open"
    /\ stdin_lines = 0
    /\ shutdown_tasks = <<>>
    /\ proc_signals = <<>>

\* lines 71-98: one iteration of filter_stdout's loop, on `line`
FilterStdoutReads(line) ==
    LET r == filter_line(line) IN
    /\ sys_stdout' = sys_stdout \o r.out
    /\ sys_stderr' = sys_stderr \o r.err
    /\ filter_task' = IF r.ended THEN "ended" ELSE "running"
    /\ gw_trace' = Append(gw_trace, [line |-> line, out |-> r.out, err |-> r.err])

\* filter_stdout reads one more line of the subprocess's stdout
FilterStdoutLine ==
    /\ filter_task = "running"
    /\ Len(gw_trace) < MaxLines
    /\ \E line \in SubprocessLines : FilterStdoutReads(line)
    /\ UNCHANGED <<idVars, promptVars, healthVars, bridgeVars, lifeVars>>

\* end of the subprocess's stdout: the "async for" finishes
FilterStdoutEof ==
    /\ filter_task = "running"
    /\ filter_task' = "ended"
    /\ UNCHANGED <<sys_stdout, sys_stderr, gw_trace>>
    /\ UNCHANGED <<idVars, promptVars, healthVars, bridgeVars, lifeVars>>

NextGateway == FilterStdoutLine \/ FilterStdoutEof

InitGateway == GatewayStarted /\ ClientIdle /\ NoPromptCall /\ HealthCheckFresh /\ BridgeStarted

SpecGateway == InitGateway /\ [][NextGateway]_vars


---------------------------------------------------------------------------
(* codex-mcp-gateway.py : CodexGateway.start and shutdown                  *)
(*                                                                         *)
(* The gateway runs one asyncio event loop.  A coroutine advances only in  *)
(* an iteration of that loop, and the loop, once nothing is ready, blocks  *)
(* in its selector until a file descriptor is ready, a timer is due, or    *)
(* another thread wakes it (the child watcher does on the subprocess's     *)
(* exit).  The handlers of line 39 are installed with signal.signal: the   *)
(* interpreter runs them in the main thread, where asyncio.create_task     *)
(* only appends the new task to the loop's ready queue.  That does not     *)
(* wake a blocked selector (no wakeup descriptor is set, the selector call *)
(* is resumed after the handler), so a task created while the loop is      *)
(* blocked starts at the loop's next iteration, whenever that comes.       *)
(*                                                                         *)
(* self.process.returncode is read as the subprocess's state: None exactly *)
(* while it runs.                                                          *)

\* the lines the subprocess writes while the gateway's life is followed
LifecycleLines ==
    {TextLine(FALSE, {"Starting"}),
     JsonLine(FALSE, TRUE, CodexEvent(MsgTaskComplete("Done"))),
     JsonLine(TRUE, FALSE, CodexEvent(MsgDelta("Hel"))),
     ArrayLine(<<"a">>)}

\* line 183, sys.exit(code): the status of a process is one byte, the low
\* eight bits of the code given
sys_exit(code) == code % 256

\* returncodes of a subprocess that exits by itself, normally or not
OwnExitCodes == {0, 1}
\* returncodes of a subprocess ended by SIGTERM and by SIGKILL
SIGTERM_code == 0 - 15
SIGKILL_code == 0 - 9

NumPending(tasks) == Cardinality({i \in 1..Len(tasks) : tasks[i] = "pending"})

\* lines 170-172, for every shutdown task that has not started: with the
\* subprocess running it calls terminate() and sleeps; with the subprocess
\* gone nothing is signalled and the task is over
StartPending(tasks, alive) ==
    [i \in 1..Len(tasks) |->
        IF tasks[i] = "pending"
        THEN (IF alive THEN "sleeping" ELSE "done")
        ELSE tasks[i]]

\* the terminate() calls of the tasks StartPending starts
Terminates(tasks, alive) ==
    IF alive THEN [i \in 1..NumPending(tasks) |-> "terminate"] ELSE <<>>

\* one iteration of the event loop: what is ready runs, the shutdown tasks
\* created by the signal handler among it
LoopIteration(alive) ==
    /\ shutdown_tasks' = StartPending(shutdown_tasks, alive)
    /\ proc_signals' = proc_signals \o Terminates(shutdown_tasks, alive)

\* lines 38-39: SIGTERM or SIGINT is delivered to the gateway.  The handler
\* creates a shutdown task.  busy: the signal arrived while the loop was
\* running a callback, and the loop goes on to its next iteration; otherwise
\* the loop is blocked in its selector and stays so.
Signal ==
    /\ gateway = "running"
    /\ Len(shutdown_tasks) < MaxSignals
    /\ \E busy \in BOOLEAN :
        LET created == Append(shutdown_tasks, "pending")
            alive == process = Running
        IN  IF busy
            THEN /\ shutdown_tasks' = StartPending(created, alive)
                 /\ proc_signals' = proc_signals \o Terminates(created, alive)
            ELSE /\ shutdown_tasks' = created
                 /\ UNCHANGED proc_signals
    /\ UNCHANGED <<process, exit_code, exit_status, gateway, stdin_task,
                   stderr_task,
                   caller_stdin, stdin_lines>>
    /\ UNCHANGED <<gwVars, idVars, promptVars, healthVars, bridgeVars>>

\* lines 172-174: the sleep of 0.5 s of a shutdown task is over; the
\* subprocess is killed if its returncode is still None
GraceElapsed(i) ==
    /\ gateway = "running"
    /\ i \in 1..Len(shutdown_tasks)
    /\ shutdown_tasks[i] = "sleeping"
    /\ LET alive == process = Running IN
        /\ shutdown_tasks' =
               [StartPending(shutdown_tasks, alive) EXCEPT ![i] = "done"]
        /\ proc_signals' = proc_signals \o Terminates(shutdown_tasks, alive)
                               \o (IF alive THEN <<"kill">> ELSE <<>>)
    /\ UNCHANGED <<process, exit_code, exit_status, gateway, stdin_task,
                   stderr_task,
                   caller_stdin, stdin_lines>>
    /\ UNCHANGED <<gwVars, idVars, promptVars, healthVars, bridgeVars>>

\* lines 59-64: the caller writes a line; forward_stdin writes it to the
\* subprocess and drains.  With the subprocess gone the pipe is closed:
\* drain raises, line 66 prints it, forward_stdin ends.
ForwardStdinLine ==
    /\ gateway = "running"
    /\ stdin_task = "reading"
    /\ caller_stdin = "open"
    /\ stdin_lines < MaxStdin
    /\ IF process = Running
       THEN /\ stdin_lines' = stdin_lines + 1
            /\ UNCHANGED <<stdin_task, sys_stderr>>
       ELSE /\ stdin_task' = "done"
            /\ sys_stderr' = Append(sys_stderr, [tag |-> "stdin error",
                                                 line |-> BlankLine(FALSE)])
            /\ UNCHANGED stdin_lines
    /\ LoopIteration(process = Running)
    /\ UNCHANGED <<process, exit_code, exit_status, gateway, stderr_task, caller_stdin>>
    /\ UNCHANGED <<sys_stdout, filter_task, gw_trace, idVars, promptVars,
                   healthVars, bridgeVars>>

\* lines 60-62: the caller closes the gateway's stdin; readline returns b""
\* and forward_stdin ends (the subprocess's stdin is left open)
ForwardStdinEof ==
    /\ gateway = "running"
    /\ stdin_task = "reading"
    /\ caller_stdin = "open"
    /\ caller_stdin' = "eof"
    /\ stdin_task' = "done"
    /\ LoopIteration(process = Running)
    /\ UNCHANGED <<process, exit_code, exit_status, gateway, stderr_task, stdin_lines>>
    /\ UNCHANGED <<gwVars, idVars, promptVars, healthVars, bridgeVars>>

\* the subprocess writes a line to its stdout; filter_stdout handles it
SubprocessWrites ==
    /\ gateway = "running"
    /\ process = Running
    /\ filter_task = "running"
    /\ Len(gw_trace) < MaxLines
    /\ \E line \in LifecycleLines : FilterStdoutReads(line)
    /\ LoopIteration(TRUE)
    /\ UNCHANGED <<process, exit_code, exit_status, gateway, stdin_task,
                   stderr_task,
                   caller_stdin, stdin_lines>>
    /\ UNCHANGED <<idVars, promptVars, healthVars, bridgeVars>>

\* lines 162-164: the subprocess writes a line to its stderr; forward_stderr
\* appends it to the log file
ForwardStderrLine ==
    /\ gateway = "running"
    /\ process = Running
    /\ stderr_task = "reading"
    /\ LoopIteration(TRUE)
    /\ UNCHANGED <<process, exit_code, exit_status, gateway, stdin_task,
                   stderr_task,
                   caller_stdin, stdin_lines>>
    /\ UNCHANGED <<gwVars, idVars, promptVars, healthVars, bridgeVars>>

\* the subprocess exits: by itself with one of OwnExitCodes, or on the
\* SIGTERM of terminate(); the child watcher wakes the loop
ProcessExits ==
    /\ gateway = "running"
    /\ process = Running
    /\ \E returncode \in OwnExitCodes \cup
                          (IF proc_signals # <<>> THEN {SIGTERM_code} ELSE {}) :
        process' = Exited(returncode)
    /\ LoopIteration(FALSE)
    /\ UNCHANGED <<exit_code, exit_status, gateway, stdin_task, stderr_task, caller_stdin,
                   stdin_lines>>
    /\ UNCHANGED <<gwVars, idVars, promptVars, healthVars, bridgeVars>>

\* the subprocess, sent SIGKILL by kill(), is ended by it
ProcessKilled ==
    /\ gateway = "running"
    /\ process = Running
    /\ \E k \in 1..Len(proc_signals) : proc_signals[k] = "kill"
    /\ process' = Exited(SIGKILL_code)
    /\ LoopIteration(FALSE)
    /\ UNCHANGED <<exit_code, exit_status, gateway, stdin_task, stderr_task, caller_stdin,
                   stdin_lines>>
    /\ UNCHANGED <<gwVars, idVars, promptVars, healthVars, bridgeVars>>

\* line 71: the subprocess is gone, its stdout is at its end, the
\* "async for" of filter_stdout finishes
StdoutEof ==
    /\ gateway = "running"
    /\ process # Running
    /\ filter_task = "running"
    /\ filter_task' = "ended"
    /\ LoopIteration(FALSE)
    /\ UNCHANGED <<process, exit_code, exit_status, gateway, stdin_task,
                   stderr_task,
                   caller_stdin, stdin_lines>>
    /\ UNCHANGED <<sys_stdout, sys_stderr, gw_trace, idVars, promptVars,
                   healthVars, bridgeVars>>

\* line 162: the subprocess is gone, its stderr is at its end, the
\* "async for" of forward_stderr finishes
StderrEof ==
    /\ gateway = "running"
    /\ process # Running
    /\ stderr_task = "reading"
    /\ stderr_task' = "done"
    /\ LoopIteration(FALSE)
    /\ UNCHANGED <<process, exit_code, exit_status, gateway, stdin_task, caller_stdin,
                   stdin_lines>>
    /\ UNCHANGED <<gwVars, idVars, promptVars, healthVars, bridgeVars>>

\* lines 42-50 and 183: the three coroutines gathered are over, the
\* subprocess is waited for, and the gateway exits with its returncode
GatewayExits ==
    /\ gateway = "running"
    /\ stdin_task = "done"
    /\ filter_task = "ended"
    /\ stderr_task = "done"
    /\ process # Running
    /\ exit_code' = process.returncode
    /\ exit_status' = sys_exit(exit_code')
    /\ gateway' = "stopped"
    /\ UNCHANGED <<process, stdin_task, stderr_task, caller_stdin, stdin_lines,
                   shutdown_tasks, proc_signals>>
    /\ UNCHANGED <<gwVars, idVars, promptVars, healthVars, bridgeVars>>

InitLifecycle == GatewayStarted /\ ClientIdle /\ NoPromptCall /\ HealthCheckFresh /\ BridgeStarted

NextLifecycle ==
    \/ Signal
    \/ \E i \in 1..MaxSignals : GraceElapsed(i)
    \/ ForwardStdinLine
    \/ ForwardStdinEof
    \/ SubprocessWrites
    \/ ForwardStderrLine
    \/ ProcessExits
    \/ ProcessKilled
    \/ StdoutEof
    \/ StderrEof
    \/ GatewayExits

\* What is fair: the steps the gateway and the operating system take by
\* themselves (a due timer, SIGKILL ending a process, the end of the pipes
\* of a process that is gone, the exit once everything gathered is over).
\* What is not: the caller writing to or closing the gateway's stdin, the
\* subprocess writing or exiting of its own accord, a signal arriving.
SpecLifecycle ==
    /\ InitLifecycle
    /\ [][NextLifecycle]_vars
    /\ WF_vars(\E i \in 1..MaxSignals : GraceElapsed(i))
    /\ WF_vars(ProcessKilled)
    /\ WF_vars(StdoutEof)
    /\ WF_vars(StderrEof)
    /\ WF_vars(GatewayExits)

---------------------------------------------------------------------------
(* mcp_sse_client.py : the identifier counter under concurrent calls       *)
(*                                                                         *)
(* Calls run as coroutines on one event loop.  A step of the model is the  *)
(* code a coroutine runs between two suspension points (await / async      *)
(* with / async for); _get_next_id is a plain method with no suspension    *)
(* point in it, so its read and its increment are in the same step.        *)

\* _get_next_id without the increment (faulty variant)
_get_next_id_stuck(mid) == [ret |-> mid, mid |-> mid]

\* MCPSSEClient._get_next_id: the value returned and the counter left behind
_get_next_id(mid) == [ret |-> mid, mid |-> mid + 1]

\* a call takes an identifier for the request `method`
TakeId(c, method) ==
    LET r == _get_next_id(_message_id) IN
    /\ _message_id' = r.mid
    /\ issued' = Append(issued, [call |-> c, method |-> method, value |-> r.ret])

\* the server_name arguments calls are made with: a key of self.servers and
\* a name that is none
ServerArgs == {"router", "nobody"}

\* "server_name in self.servers" always true (faulty variant)
known_server_any(server_name) == TRUE

\* lines 131 and 565: server_name in self.servers
known_server(server_name) ==
    \E i \in 1..Len(ServerNames) : ServerNames[i] = server_name

\* lines 131-132 and 565-566: an unknown name, the call raises ValueError;
\* otherwise the request is built with a fresh id and the connection opened
StartCall(c, server_name, method) ==
    IF known_server(server_name)
    THEN /\ TakeId(c, method)
         /\ callPc' = [callPc EXCEPT ![c] = "connected"]
    ELSE /\ callPc' = [callPc EXCEPT ![c] = "raised"]
         /\ UNCHANGED <<_message_id, issued>>

\* send_prompt up to "async with aconnect_sse": prompt_request_id is taken
StartSendPrompt(c) ==
    /\ callPc[c] = "idle"
    /\ \E server_name \in ServerArgs :
        /\ StartCall(c, server_name, "tools/call")
        /\ callServer' = [callServer EXCEPT ![c] = server_name]
    /\ callKind' = [callKind EXCEPT ![c] = "send_prompt"]
    /\ UNCHANGED <<_client_instance, gwVars, promptVars, healthVars, bridgeVars, lifeVars>>

\* list_tools up to "async with aconnect_sse": the tools/list id is taken
StartListTools(c) ==
    /\ callPc[c] = "idle"
    /\ \E server_name \in ServerArgs :
        /\ StartCall(c, server_name, "tools/list")
        /\ callServer' = [callServer EXCEPT ![c] = server_name]
    /\ callKind' = [callKind EXCEPT ![c] = "list_tools"]
    /\ UNCHANGED <<_client_instance, gwVars, promptVars, healthVars, bridgeVars, lifeVars>>

\* the endpoint event arrives: init_request_id is taken (send_prompt), or
\* _initialize_session takes one (list_tools); then the POST is awaited
EndpointArrives(c) ==
    /\ callPc[c] = "connected"
    /\ TakeId(c, "initialize")
    /\ callPc' = [callPc EXCEPT ![c] = "initializing"]
    /\ UNCHANGED <<callKind, callServer, _client_instance, gwVars, promptVars,
                   healthVars, bridgeVars, lifeVars>>

\* the call ends (result, error, or connection closed)
CallEnds(c) ==
    /\ callPc[c] \in {"connected", "initializing"}
    /\ callPc' = [callPc EXCEPT ![c] = "done"]
    /\ UNCHANGED <<_message_id, issued, callKind, callServer, _client_instance,
                   gwVars, promptVars, healthVars, bridgeVars, lifeVars>>

InitIds == ClientIdle /\ GatewayStarted /\ NoPromptCall /\ HealthCheckFresh /\ BridgeStarted

NextIds ==
    \E c \in 1..NumCalls :
        \/ StartSendPrompt(c)
        \/ StartListTools(c)
        \/ EndpointArrives(c)
        \/ CallEnds(c)

SpecIds == InitIds /\ [][NextIds]_vars

\* C1: no two invocations of _get_next_id, by any calls interleaved at any
\* suspension point, return the same value.
C1_IdsUnique ==
    \A i, j \in 1..Len(issued) : i # j => issued[i].value # issued[j].value

\* C1 witness: three calls are in flight at once, their identifier requests
\* interleaved (another call took an identifier between the two of call 1).
C1_Witness ==
    /\ \A c \in 1..NumCalls : callPc[c] \in {"connected", "initializing"}
    /\ \E i, j, k \in 1..Len(issued) :
        /\ i < j /\ j < k
        /\ issued[i].call = 1 /\ issued[j].call # 1 /\ issued[k].call = 1

\* C14: a send_prompt or list_tools call made with a name that is no key of
\* self.servers has raised ValueError as its first step: it never opened a
\* connection and took no identifier, and the counter stands where the
\* identifiers handed out to the other calls left it.
C14_UnknownServerFailsFast ==
    /\ \A c \in 1..NumCalls :
        (callPc[c] # "idle" /\ ~(\E i \in 1..Len(ServerNames) :
                                     ServerNames[i] = callServer[c]))
        => /\ callPc[c] = "raised"
           /\ \A i \in 1..Len(issued) : issued[i].call # c
    /\ _message_id = 1 + Len(issued)
    /\ \A c \in 1..NumCalls : callPc[c] = "raised" => callServer[c] = "nobody"

\* C14 witness: a send_prompt and a list_tools call with the name "nobody"
\* have raised while another call, which took its identifiers, is in flight.
C14_Witness ==
    /\ \E c, d \in 1..NumCalls :
        /\ callPc[c] = "raised" /\ callKind[c] = "send_prompt"
        /\ callPc[d] = "raised" /\ callKind[d] = "list_tools"
        /\ callServer[c] = "nobody" /\ callServer[d] = "nobody"
    /\ \E c \in 1..NumCalls : callPc[c] = "initializing"
    /\ _message_id = 3

---------------------------------------------------------------------------
(* mcp_sse_client.py : the shared client of the process                    *)
(*                                                                         *)
(* get_mcp_client hands out the module's one MCPSSEClient and creates it   *)
(* when there is none; close_mcp_client closes it and forgets it.  The     *)
(* identifier counter is a field of the client object: a new object starts *)
(* a new counter.  issued keeps every identifier the process put into a    *)
(* request, whichever client object handed it out.  close_mcp_client is    *)
(* followed here only when no call is in flight (the bridge calls it at    *)
(* application shutdown).                                                  *)

\* lines 686-691: get_mcp_client with no client, MCPSSEClient() is created
\* (line 69: self._message_id = 1)
GetMcpClient ==
    /\ _client_instance = "None"
    /\ _client_instance' = "MCPSSEClient"
    /\ _message_id' = 1
    /\ UNCHANGED <<callPc, callKind, callServer, issued>>
    /\ UNCHANGED <<gwVars, promptVars, healthVars, bridgeVars, lifeVars>>

\* lines 699-704: close_mcp_client with a client
CloseMcpClient ==
    /\ _client_instance # "None"
    /\ \A c \in 1..NumCalls : callPc[c] \in {"idle", "done", "raised"}
    /\ _client_instance' = "None"
    /\ UNCHANGED <<_message_id, callPc, callKind, callServer, issued>>
    /\ UNCHANGED <<gwVars, promptVars, healthVars, bridgeVars, lifeVars>>

\* "async with get_mcp_client() as client" with the client there, and a
\* step of a call made on it
CallOnClient ==
    /\ _client_instance # "None"
    /\ NextIds

InitSingleton == ModuleLoaded /\ GatewayStarted /\ NoPromptCall /\ HealthCheckFresh /\ BridgeStarted

NextSingleton ==
    \/ GetMcpClient
    \/ CloseMcpClient
    \/ CallOnClient

SpecSingleton == InitSingleton /\ [][NextSingleton]_vars

\* C22: every identifier the process put into a request envelope differs
\* from every one it put into an earlier request, also when the shared
\* client was closed with close_mcp_client and obtained again with
\* get_mcp_client in between.
C22_IdsUniqueInProcess ==
    \A i, j \in 1..Len(issued) : issued[i].value = issued[j].value => i = j

---------------------------------------------------------------------------
(* mcp_sse_client.py : MCPSSEClient.send_prompt, one call                  *)
(*                                                                         *)
(* The loop body is computed on a record L of the call's local variables:  *)
(*   out - the elements yielded while handling the event, in order         *)
(*   ctl - "next": go on with the loop; "return": the generator returned;  *)
(*         "raise": an exception left the loop body (exc: its text)        *)

\* message_id of a message without "id" (data.get("id") is None)
NoId == 0

RECURSIVE join(_)
\* "".join(chunks)
join(chunks) == IF chunks = <<>> THEN "" ELSE Head(chunks) \o join(Tail(chunks))

\* "".join raises TypeError on a chunk that is None
join_raises(chunks) == \E i \in 1..Len(chunks) : chunks[i] = None

Yield(L, type, content) ==
    [L EXCEPT !.out = Append(@, [type |-> type, content |-> content])]

Return(L) == [L EXCEPT !.ctl = "return"]

Raise(L, text) == [L EXCEPT !.ctl = "raise", !.exc = text]

\* method.startswith("notifications/")
is_notification(method) == Len(method) >= 2 /\ method[1] = "notifications"

\* lines 277-281 with the text dropped (faulty variant)
text_result_empty(last_agent_message) ==
    [content |-> <<[type |-> "text", text |-> ""]>>, isError |-> FALSE]

\* lines 277-281: the result built from last_agent_message
text_result(last_agent_message) ==
    [content |-> <<[type |-> "text", text |-> last_agent_message]>>,
     isError |-> FALSE]

\* lines 249-284 with the delta yielded whatever `stream` is (faulty
\* variant)
on_codex_event_unguarded(L, data) ==
    LET params == Get(data, "params", EmptyDict)
        msg == Get(params, "msg", EmptyDict)
        event_type == Get(msg, "type", None)
    IN  IF event_type = "session_configured" THEN
            [L EXCEPT !.session_configured = TRUE]
        ELSE IF event_type = "agent_message_delta" THEN
            LET content == Get(msg, "delta", "") IN
            IF Truthy(content)
            THEN Yield(L, "chunk", content)
            ELSE L
        ELSE IF event_type = "task_complete" THEN
            LET last_agent_message == Get(msg, "last_agent_message", "") IN
            IF Truthy(last_agent_message)
            THEN [L EXCEPT !.task_complete = TRUE,
                           !.collected_result = text_result(last_agent_message)]
            ELSE [L EXCEPT !.task_complete = TRUE]
        ELSE L

\* lines 249-284: method == "codex/event"
on_codex_event(L, data) ==
    LET params == Get(data, "params", EmptyDict)
        msg == Get(params, "msg", EmptyDict)
        event_type == Get(msg, "type", None)
    IN  IF event_type = "session_configured" THEN
            [L EXCEPT !.session_configured = TRUE]
        ELSE IF event_type = "agent_message_delta" THEN
            LET content == Get(msg, "delta", "") IN
            IF L.stream /\ Truthy(content)
            THEN Yield(L, "chunk", content)
            ELSE L
        ELSE IF event_type = "task_complete" THEN
            LET last_agent_message == Get(msg, "last_agent_message", "") IN
            IF Truthy(last_agent_message)
            THEN [L EXCEPT !.task_complete = TRUE,
                           !.collected_result = text_result(last_agent_message)]
            ELSE [L EXCEPT !.task_complete = TRUE]
        ELSE L

\* lines 292-319 yielding each delta under its event type (faulty variant)
on_notification_event_type(L, data) ==
    LET params == Get(data, "params", EmptyDict)
        event_type == Get(params, "type", "")
        delta == Get(params, "delta", "")
    IN  IF event_type = "agent_message_delta" THEN
            LET L1 == [L EXCEPT !.message_chunks = Append(@, delta)] IN
            IF L.stream /\ Truthy(delta) THEN Yield(L1, event_type, delta) ELSE L1
        ELSE IF event_type \in {"agent_reasoning_delta",
                                "agent_reasoning_raw_content_delta"} THEN
            LET L1 == [L EXCEPT !.reasoning_chunks = Append(@, delta)] IN
            IF L.stream /\ Truthy(delta) THEN Yield(L1, event_type, delta) ELSE L1
        ELSE IF event_type = "mcp_tool_call_end" THEN
            LET result == Get(params, "result", EmptyDict) IN
            IF "error" \in DOMAIN result
            THEN [L EXCEPT !.has_tool_error = TRUE]
            ELSE L
        ELSE L

\* lines 292-319: method.startswith("notifications/")
on_notification(L, data) ==
    LET params == Get(data, "params", EmptyDict)
        event_type == Get(params, "type", "")
    IN  IF event_type = "agent_message_delta" THEN
            LET delta == Get(params, "delta", "")
                L1 == [L EXCEPT !.message_chunks = Append(@, delta)]
            IN  IF L.stream /\ Truthy(delta)
                THEN Yield(L1, "message", delta)
                ELSE L1
        ELSE IF event_type \in {"agent_reasoning_delta",
                                "agent_reasoning_raw_content_delta"} THEN
            LET delta == Get(params, "delta", "")
                L1 == [L EXCEPT !.reasoning_chunks = Append(@, delta)]
            IN  IF L.stream /\ Truthy(delta)
                THEN Yield(L1, "reasoning", delta)
                ELSE L1
        ELSE IF event_type = "mcp_tool_call_end" THEN
            LET result == Get(params, "result", EmptyDict) IN
            IF "error" \in DOMAIN result
            THEN [L EXCEPT !.has_tool_error = TRUE]
            ELSE L
        ELSE L

\* lines 321-330: method == "task_complete"
on_task_complete(L, data) ==
    IF (L.message_chunks # <<>> /\ join_raises(L.message_chunks))
       \/ join_raises(L.reasoning_chunks)
    THEN Raise(L, "sequence item: expected str instance, NoneType found")
    ELSE
        LET final_message ==
                IF L.message_chunks # <<>>
                THEN join(L.message_chunks)
                ELSE Get(Get(data, "params", EmptyDict), "last_agent_message", "")
        IN  [L EXCEPT !.task_complete = TRUE,
                      !.collected_result =
                          [reasoning |-> join(L.reasoning_chunks),
                           message |-> final_message,
                           had_retry |-> L.has_tool_error]]

\* lines 245-358: if "method" in data
on_method(L, data) ==
    IF "method" \notin DOMAIN data THEN L
    ELSE
        LET method == data.method IN
        IF method = CodexEventMethod THEN on_codex_event(L, data)
        ELSE IF method = <<"session_configured">> THEN
            [L EXCEPT !.session_configured = TRUE]
        ELSE IF is_notification(method) THEN on_notification(L, data)
        ELSE IF method = <<"task_complete">> THEN on_task_complete(L, data)
        \* line 333, elif method == "notifications/message": never taken, the
        \* test of line 292 holds of that method
        ELSE L

\* lines 364-378 without the return (faulty variant: the result is stored and the
\* loop goes on until task_complete)
on_result_wait(L, data) ==
    IF L.collected_result = PyNone
    THEN [L EXCEPT !.collected_result = data.result]
    ELSE L

\* lines 366-378: a response to the prompt request that has "result"
on_result(L, data) ==
    LET L1 == IF L.collected_result = PyNone
              THEN [L EXCEPT !.collected_result = data.result]
              ELSE L
    IN  IF L1.collected_result # PyNone
        THEN Return(Yield(L1, "result", L1.collected_result))
        ELSE L1

\* lines 380-386 without the return (faulty variant: the error is yielded and
\* the loop goes on)
on_error_continue(L, data) ==
    Yield(L, "error", Get(Get(data, "error", EmptyDict), "message", "str(error)"))

\* lines 380-386: a response to the prompt request that has "error"
on_error(L, data) ==
    Return(Yield(L, "error",
                 Get(Get(data, "error", EmptyDict), "message", "str(error)")))

\* lines 360-395: the message's id
on_message_id(L, data) ==
    LET message_id == Get(data, "id", NoId) IN
    IF message_id = L.prompt_request_id THEN
        IF "result" \in DOMAIN data THEN on_result(L, data)
        ELSE IF "error" \in DOMAIN data THEN on_error(L, data)
        ELSE L
    ELSE IF L.stream /\ L.prompt_sent /\ message_id = NoId THEN
        IF "chunk" \in DOMAIN data
        THEN Yield(L, "chunk", data.chunk)
        ELSE L
    ELSE L

\* lines 401-408 without the return (faulty variant: the result is yielded
\* and the loop goes on)
final_check_continue(L) ==
    IF L.ctl = "next" /\ L.task_complete /\ L.collected_result # PyNone
    THEN Yield(L, "result", L.collected_result)
    ELSE L

\* lines 401-408: "Check if we have completed and have a result"
final_check(L) ==
    IF L.ctl = "next" /\ L.task_complete /\ L.collected_result # PyNone
    THEN Return(Yield(L, "result", L.collected_result))
    ELSE L

\* lines 238-408: one message event whose data is `event_data`, received
\* after the prompt was sent
on_message_event(L, event_data) ==
    IF ~event_data.valid THEN
        \* json.JSONDecodeError: logged, "continue"
        L
    ELSE IF event_data.open = "[" THEN
        \* json.loads returns a list: data.get raises AttributeError
        Raise(L, "'list' object has no attribute 'get'")
    ELSE
        LET data == loads(event_data)
            L1 == on_method(L, data)
            L2 == IF L1.ctl = "next" THEN on_message_id(L1, data) ELSE L1
        IN  final_check(L2)

\* the call's local variables, as the loop body reads them
Locals ==
    [stream |-> stream, prompt_request_id |-> prompt_request_id,
     prompt_sent |-> prompt_sent, task_complete |-> task_complete,
     collected_result |-> collected_result,
     session_configured |-> session_configured,
     reasoning_chunks |-> reasoning_chunks, message_chunks |-> message_chunks,
     has_tool_error |-> has_tool_error,
     out |-> <<>>, ctl |-> "next", exc |-> ""]

\* the loop body ran from Locals to L: the locals are stored, the elements
\* are yielded, and the call goes on, returns, or ends in the handler of
\* lines 438-443 ("except Exception": one error element, str(e))
StoreLocals(L) ==
    /\ task_complete' = L.task_complete
    /\ collected_result' = L.collected_result
    /\ session_configured' = L.session_configured
    /\ reasoning_chunks' = L.reasoning_chunks
    /\ message_chunks' = L.message_chunks
    /\ has_tool_error' = L.has_tool_error
    /\ yielded' = yielded \o L.out \o
                  (IF L.ctl = "raise"
                   THEN <<[type |-> "error", content |-> L.exc]>>
                   ELSE <<>>)
    /\ pc' = IF L.ctl = "next" THEN "connected" ELSE "done"
    /\ ending' = IF L.ctl = "next" THEN ""
                 ELSE IF L.ctl = "raise" THEN "exception"
                 ELSE "returned"

\* wire forms an agent server writes besides codex/event
Notification(type, delta) ==
    [jsonrpc |-> "2.0", method |-> <<"notifications", type>>,
     params |-> [type |-> type, delta |-> delta]]
TaskCompleteMethod(t) ==
    [jsonrpc |-> "2.0", method |-> <<"task_complete">>,
     params |-> [last_agent_message |-> t]]
ErrorObj(i, text) ==
    [jsonrpc |-> "2.0", id |-> i, error |-> [code |-> "-32000", message |-> text]]
WithId(o, i) == o @@ ("id" :> i)

\* an identifier that is not the prompt request's: another call's
ForeignId(reqid) == reqid + 2

ResultPayload == [content |-> <<[type |-> "text", text |-> "Answer"]>>]
InitPayload == [protocolVersion |-> "0.1.0"]

\* the JSON objects the agent server may write once the prompt was sent
ServerObjects(reqid, initid) ==
    {CodexEvent(MsgSessionConfigured),
     CodexEvent(MsgDelta("Hel")), CodexEvent(MsgDelta("lo")),
     CodexEvent(MsgReasoning("th")),
     CodexEvent(MsgToolEndErr),
     CodexEvent(MsgTaskComplete("Done")), CodexEvent(MsgTaskComplete(None)),
     CodexEvent(MsgCustom),
     Notification("agent_message_delta", "par"),
     TaskCompleteMethod("Done"), TaskCompleteMethod(None),
     ResponseObj(reqid, ResultPayload),
     ResponseObj(initid, InitPayload),
     ErrorObj(reqid, "tool failed"),
     WithId(Notification("agent_message_delta", "zz"), ForeignId(reqid)),
     WithId(CodexEvent(MsgTaskComplete("Other")), ForeignId(reqid))}

\* the lines the agent server may write once the prompt was sent
ServerLines(reqid, initid) ==
    {JsonLine(FALSE, TRUE, o) : o \in ServerObjects(reqid, initid)}
    \cup {BrokenLine("{", {})}

PostOutcomes == {"accepted", "rejected", "raised"}

\* a POST of the request `method` and what became of it: "accepted" is a
\* response with status 200 or 202, "rejected" one with another status,
\* "raised" an exception out of client.post
Post(method, id, outcome) == [method |-> method, id |-> id, outcome |-> outcome]

\* _initialize_session_with_id without the test of lines 478-479 (faulty
\* variant: the notification follows any response to initialize)
_initialize_session_with_id_unchecked(init_id, init, notif) ==
    [posts |-> <<Post("initialize", init_id, init)>> \o
               (IF init # "raised"
                THEN <<Post("notifications/initialized", NoId, notif)>>
                ELSE <<>>),
     ok |-> init # "raised" /\ notif = "accepted"]

\* _initialize_session_with_id returning True once initialize was accepted
\* (faulty variant of line 494)
_initialize_session_with_id_first_only(init_id, init, notif) ==
    [posts |-> <<Post("initialize", init_id, init)>> \o
               (IF init = "accepted"
                THEN <<Post("notifications/initialized", NoId, notif)>>
                ELSE <<>>),
     ok |-> init = "accepted"]

\* lines 445-498, _initialize_session_with_id: the POSTs it makes, in order,
\* and its return value.  init / notif: what becomes of the two POSTs.
_initialize_session_with_id(init_id, init, notif) ==
    [posts |-> <<Post("initialize", init_id, init)>> \o
               (IF init = "accepted"
                THEN <<Post("notifications/initialized", NoId, notif)>>
                ELSE <<>>),
     ok |-> init = "accepted" /\ notif = "accepted"]

\* line 157, "async with aconnect_sse(...)": the connection is opened on
\* entry and closed when the block is left, by whatever way (return, an
\* exception, the generator being closed)
aconnect_sse(log) == Append(log, "open")
aexit_leaves_open(log) == log
aexit(log) == Append(log, "close")

\* the generator is over exactly when the block of line 157 has been left
ConnectionFollows ==
    sse_log' = IF pc' = "done" THEN aexit(sse_log) ELSE sse_log

\* line 189: "not endpoint_url", the test that lets the first endpoint
\* event through
first_endpoint_every(url) == TRUE
first_endpoint(url) == url = NoUrl

\* lines 131-151: the server is known, prompt_request_id is taken, the
\* request is built; then the connection is opened
SendPromptStart ==
    /\ pc = "start"
    /\ LET r == _get_next_id(_message_id) IN
        /\ _message_id' = r.mid
        /\ prompt_request_id' = r.ret
        /\ issued' = Append(issued, [call |-> 1, method |-> "tools/call", value |-> r.ret])
    /\ pc' = "connected"
    /\ sse_log' = aconnect_sse(sse_log)
    /\ UNCHANGED <<callPc, callKind, callServer, _client_instance, gwVars, healthVars, bridgeVars, lifeVars, argVars, init_request_id,
                   endpoint_url, prompt_sent, task_complete, collected_result,
                   session_configured, reasoning_chunks, message_chunks,
                   has_tool_error, yielded, posted, sent, received, ending,
                   endpoint_events, waitVars>>

\* lines 189-235 with _initialize_session_with_id (445-498): the first
\* endpoint event.  init / notif / req: what becomes of the three POSTs.
HandleEndpoint ==
    /\ pc = "connected"
    /\ endpoint_events < MaxEndpoints
    /\ first_endpoint(endpoint_url)
    /\ \E init \in PostOutcomes, notif \in PostOutcomes, req \in PostOutcomes :
        LET r == _get_next_id(_message_id)
            h == _initialize_session_with_id(r.ret, init, notif)
            initialized == h.ok
            p3 == IF initialized
                  THEN <<Post("tools/call", prompt_request_id, req)>>
                  ELSE <<>>
        IN  /\ endpoint_url' = "/messages/?session_id=s1"
            /\ _message_id' = r.mid
            /\ init_request_id' = r.ret
            /\ issued' = Append(issued, [call |-> 1, method |-> "initialize",
                                         value |-> r.ret])
            /\ posted' = posted \o h.posts \o p3
            /\ prompt_sent' = (initialized /\ req # "raised")
            /\ IF ~initialized THEN
                   /\ yielded' = Append(yielded,
                          [type |-> "error",
                           content |-> "Failed to initialize MCP session"])
                   /\ pc' = "done"
                   /\ ending' = "handshake"
               ELSE IF req = "raised" THEN
                   /\ yielded' = Append(yielded,
                          [type |-> "error", content |-> "str(e)"])
                   /\ pc' = "done"
                   /\ ending' = "exception"
               ELSE IF req = "rejected" THEN
                   /\ yielded' = Append(yielded,
                          [type |-> "error", content |-> "Failed to send message"])
                   /\ pc' = "done"
                   /\ ending' = "rejected"
               ELSE
                   /\ UNCHANGED <<yielded, pc, ending>>
    /\ endpoint_events' = endpoint_events + 1
    /\ ConnectionFollows
    /\ UNCHANGED <<callPc, callKind, callServer, _client_instance, gwVars, healthVars, bridgeVars, lifeVars, argVars, prompt_request_id,
                   task_complete, collected_result, session_configured,
                   reasoning_chunks, message_chunks, has_tool_error, sent,
                   received, waitVars>>

\* a further endpoint event: line 189 is false for it (endpoint_url is
\* set), and so is line 238 (its name is "endpoint"); line 402 finds
\* nothing complete
FurtherEndpoint ==
    /\ pc = "connected"
    /\ endpoint_events < MaxEndpoints
    /\ ~first_endpoint(endpoint_url)
    /\ ~(task_complete /\ collected_result # PyNone)
    /\ endpoint_events' = endpoint_events + 1
    /\ UNCHANGED <<idVars, gwVars, healthVars, bridgeVars, lifeVars, argVars, localVars,
                   pc, yielded, posted, sent, received, ending, sse_log,
                   waitVars>>

\* an event the loop body passes over: a message event before the prompt
\* was sent (line 238) or an event of another name; line 402 then finds
\* nothing complete
IgnoredEvent ==
    /\ pc = "connected"
    /\ ~(task_complete /\ collected_result # PyNone)
    /\ UNCHANGED vars

\* the agent server writes a line after the prompt was sent; behind the
\* gateway it goes through filter_stdout first; what is left reaches the
\* loop body as the data of a message event (lines 238-408)
ServerWritesLine(line) ==
    LET gw == filter_line(line)
        delivered == IF fronted THEN gw.out ELSE <<line>>
        L == IF delivered = <<>>
             THEN Locals
             ELSE on_message_event(Locals, delivered[1])
    IN  /\ sent' = Append(sent, line)
        /\ received' = received \o delivered
        /\ filter_task' = IF fronted /\ gw.ended THEN "ended" ELSE filter_task
        /\ StoreLocals(L)

ServerWrites ==
    /\ pc = "connected"
    /\ prompt_sent
    /\ Len(sent) < MaxEvents
    /\ fronted => filter_task = "running"
    /\ \E line \in ServerLines(prompt_request_id, init_request_id) :
        ServerWritesLine(line)
    /\ ConnectionFollows
    /\ UNCHANGED <<idVars, sys_stdout, sys_stderr, gw_trace, healthVars, bridgeVars, lifeVars, argVars,
                   prompt_request_id, init_request_id, endpoint_url,
                   prompt_sent, posted, endpoint_events, waitVars>>

\* lines 410-422 with any text in the error element (faulty variant)
on_close_unnamed(result) ==
    IF result # PyNone
    THEN [type |-> "result", content |-> result]
    ELSE [type |-> "error", content |-> "str(e)"]

\* lines 410-422: what is yielded once the "async for" is exhausted
on_close(result) ==
    IF result # PyNone
    THEN [type |-> "result", content |-> result]
    ELSE [type |-> "error",
          content |-> "Connection closed without receiving a response"]

\* lines 410-422: the connection closes, the "async for" is exhausted
StreamCloses ==
    /\ pc = "connected"
    /\ yielded' = Append(yielded, on_close(collected_result))
    /\ pc' = "done"
    /\ ending' = "closed"
    /\ ConnectionFollows
    /\ UNCHANGED <<idVars, gwVars, healthVars, bridgeVars, lifeVars, argVars, localVars, posted, sent,
                   received, endpoint_events, waitVars>>

\* lines 424-443: reading the stream raises (read timeout, disconnect)
StreamFails ==
    /\ pc = "connected"
    /\ yielded' = Append(yielded, [type |-> "error", content |-> "str(e)"])
    /\ pc' = "done"
    /\ ending' = "exception"
    /\ ConnectionFollows
    /\ UNCHANGED <<idVars, gwVars, healthVars, bridgeVars, lifeVars, argVars, localVars, posted, sent,
                   received, endpoint_events, waitVars>>

\* the caller gives the sequence up before its terminal element: aclose()
\* on the generator, or the consuming task cancelled.  GeneratorExit or
\* CancelledError is raised where the generator is suspended; neither is an
\* Exception, so the handlers of lines 424-443 do not run and nothing is
\* yielded; the block of line 157 is left.  A generator that never ran
\* has opened nothing.
CallerCloses ==
    /\ pc \in {"start", "connected"}
    /\ pc' = "done"
    /\ ending' = "abandoned"
    /\ sse_log' = IF pc = "start" THEN sse_log ELSE aexit(sse_log)
    /\ UNCHANGED <<idVars, gwVars, healthVars, bridgeVars, lifeVars, argVars, localVars,
                   yielded, posted, sent, received, endpoint_events,
                   waitVars>>

InitPrompt ==
    /\ ClientIdle
    /\ GatewayStarted
    /\ stream \in BOOLEAN
    /\ fronted \in BOOLEAN
    /\ PromptCallFresh
    /\ HealthCheckFresh
    /\ BridgeStarted

NextPrompt ==
    \/ SendPromptStart
    \/ HandleEndpoint
    \/ FurtherEndpoint
    \/ IgnoredEvent
    \/ ServerWrites
    \/ StreamCloses
    \/ StreamFails
    \/ CallerCloses

SpecPrompt == InitPrompt /\ [][NextPrompt]_vars

---------------------------------------------------------------------------
(* mcp_sse_client.py : send_prompt between the handshake and the prompt    *)
(* request (lines 206-225), on a direct connection                         *)
(*                                                                         *)
(* The wait of lines 207-212 runs inside the body of the "async for" of    *)
(* line 184, in the branch of the endpoint event.  While it sleeps the     *)
(* generator is not at the "async for": an event the server delivers stays *)
(* in the stream, and the assignment of line 258 is in a later iteration   *)
(* of the loop, one that line 238 admits only with prompt_sent.  Time is   *)
(* counted in sleeps of 0.1 s.                                             *)

\* lines 208-212: asyncio.sleep(2.0) and "> 2.0", in sleeps of 0.1 s
WaitTicks == 20
timeout_done(ticks) == ticks >= WaitTicks
elapsed_over(ticks) == ticks > WaitTicks

SessionConfiguredLine == JsonLine(FALSE, TRUE, CodexEvent(MsgSessionConfigured))

\* line 204 reached: the handshake of the first endpoint event succeeded
HandshakeDone ==
    /\ _client_instance = "MCPSSEClient"
    /\ _message_id = 3
    /\ callPc = [c \in 1..NumCalls |-> "idle"]
    /\ callKind = [c \in 1..NumCalls |-> "send_prompt"]
    /\ callServer = [c \in 1..NumCalls |-> ""]
    /\ issued = <<[call |-> 1, method |-> "tools/call", value |-> 1],
                  [call |-> 1, method |-> "initialize", value |-> 2]>>
    /\ stream \in BOOLEAN
    /\ fronted = FALSE
    /\ pc = "connected"
    /\ prompt_request_id = 1
    /\ init_request_id = 2
    /\ endpoint_url = "/messages/?session_id=s1"
    /\ prompt_sent = FALSE
    /\ task_complete = FALSE
    /\ collected_result = PyNone
    /\ session_configured = FALSE
    /\ reasoning_chunks = <<>>
    /\ message_chunks = <<>>
    /\ has_tool_error = FALSE
    /\ yielded = <<>>
    /\ posted = _initialize_session_with_id(2, "accepted", "accepted").posts
    /\ sent = <<>>
    /\ received = <<>>
    /\ ending = ""
    /\ sse_log = <<"open">>
    /\ endpoint_events = 1
    /\ wait_pc = "handshake"
    /\ wait_ticks = 0
    /\ marker_tick = NoMarker

\* line 207: "if not session_configured"
WaitBegins ==
    /\ wait_pc = "handshake"
    /\ wait_pc' = IF ~session_configured THEN "polling" ELSE "sending"
    /\ UNCHANGED <<wait_ticks, marker_tick>>
    /\ UNCHANGED <<idVars, gwVars, healthVars, bridgeVars, lifeVars, argVars, localVars,
                   pc, yielded, posted, sent, received, ending, connVars>>

\* lines 209-212, one turn of the loop: the condition holds, the sleep of
\* 0.1 s is done, and the elapsed time is tested
Poll ==
    /\ wait_pc = "polling"
    /\ ~session_configured /\ ~timeout_done(wait_ticks)
    /\ wait_ticks' = wait_ticks + 1
    /\ wait_pc' = IF elapsed_over(wait_ticks') THEN "sending" ELSE "polling"
    /\ UNCHANGED marker_tick
    /\ UNCHANGED <<idVars, gwVars, healthVars, bridgeVars, lifeVars, argVars, localVars,
                   pc, yielded, posted, sent, received, ending, connVars>>

\* line 209: the condition of the loop is false
PollEnds ==
    /\ wait_pc = "polling"
    /\ session_configured \/ timeout_done(wait_ticks)
    /\ wait_pc' = "sending"
    /\ UNCHANGED <<wait_ticks, marker_tick>>
    /\ UNCHANGED <<idVars, gwVars, healthVars, bridgeVars, lifeVars, argVars, localVars,
                   pc, yielded, posted, sent, received, ending, connVars>>

\* the server delivers the session_configured event during the wait; the
\* generator is in the sleep of line 210, the event waits in the stream
MarkerDelivered ==
    /\ wait_pc = "polling"
    /\ marker_tick = NoMarker
    /\ marker_tick' = wait_ticks
    /\ UNCHANGED <<wait_pc, wait_ticks>>
    /\ UNCHANGED <<idVars, gwVars, healthVars, bridgeVars, lifeVars, argVars, localVars,
                   pc, yielded, posted, sent, received, ending, connVars>>

\* lines 215-225: the prompt request is POSTed (and accepted)
SendRequest ==
    /\ wait_pc = "sending"
    /\ posted' = Append(posted, Post("tools/call", prompt_request_id, "accepted"))
    /\ prompt_sent' = TRUE
    /\ wait_pc' = "sent"
    /\ UNCHANGED <<wait_ticks, marker_tick>>
    /\ UNCHANGED <<idVars, gwVars, healthVars, bridgeVars, lifeVars, argVars,
                   prompt_request_id, init_request_id, endpoint_url,
                   task_complete, collected_result, session_configured,
                   reasoning_chunks, message_chunks, has_tool_error,
                   pc, yielded, sent, received, ending, connVars>>

\* lines 238-258: back at the "async for", the event that waited in the
\* stream is handled
MarkerHandled ==
    /\ wait_pc = "sent"
    /\ marker_tick # NoMarker
    /\ sent = <<>>
    /\ sent' = <<SessionConfiguredLine>>
    /\ received' = <<SessionConfiguredLine>>
    /\ StoreLocals(on_message_event(Locals, SessionConfiguredLine))
    /\ UNCHANGED <<idVars, gwVars, healthVars, bridgeVars, lifeVars, argVars,
                   prompt_request_id, init_request_id, endpoint_url,
                   prompt_sent, posted, connVars, waitVars>>

InitWait == HandshakeDone /\ GatewayStarted /\ HealthCheckFresh /\ BridgeStarted

NextWait ==
    \/ WaitBegins
    \/ Poll
    \/ PollEnds
    \/ MarkerDelivered
    \/ SendRequest
    \/ MarkerHandled

SpecWait == InitWait /\ [][NextWait]_vars

\* C24: the prompt request is sent after at most WaitTicks sleeps; when the
\* session_configured event was delivered during the wait, the request is
\* sent once the marker is observed (at the next test of the loop's
\* condition), before the bound has elapsed; when none was delivered, it is
\* sent when the bound has elapsed.
C24_WaitEndsWithMarker ==
    /\ wait_ticks <= WaitTicks
    /\ (wait_pc = "sent" /\ marker_tick # NoMarker /\ marker_tick + 1 < WaitTicks)
        => wait_ticks <= marker_tick + 1
    /\ (wait_pc = "sent" /\ marker_tick = NoMarker) => wait_ticks = WaitTicks

---------------------------------------------------------------------------
(* mcp_sse_client.py : send_prompt once the prompt request was accepted,   *)
(* on a direct connection, given message events of further shapes:         *)
(* notifications/message notifications and payloads that are no JSON       *)
(* object                                                                  *)

\* a JSON string in a place that may also hold an object
PyStr(text) == [py_str |-> text]
\* isinstance(value, str)
is_str(value) == "py_str" \in DOMAIN value

\* a notifications/message notification (MCP logging): params.logger and
\* params.data, the latter an object or a plain string
MessageNotification(logger, data) ==
    [jsonrpc |-> "2.0", method |-> <<"notifications", "message">>,
     params |-> [level |-> "info", logger |-> logger, data |-> data]]

PayloadObjects(reqid) ==
    {MessageNotification("reasoning", [type |-> "thought", content |-> "think"]),
     MessageNotification("codex", [type |-> "reasoning", content |-> "why"]),
     MessageNotification("codex", [type |-> "text", content |-> "txt"]),
     MessageNotification("agent", PyStr("plain")),
     MessageNotification("codex", MsgCustom),
     CodexEvent(MsgDelta("Hel")),
     ResponseObj(reqid, ResultPayload)}

\* the data of the message events the call is given
PayloadLines(reqid) ==
    {JsonLine(FALSE, TRUE, o) : o \in PayloadObjects(reqid)}
    \cup {BrokenLine("{", {}), ArrayLine(<<"a">>)}

\* lines 219-235 passed: the handshake succeeded, the wait is over and the
\* prompt request was accepted
PromptAccepted ==
    /\ _client_instance = "MCPSSEClient"
    /\ _message_id = 3
    /\ callPc = [c \in 1..NumCalls |-> "idle"]
    /\ callKind = [c \in 1..NumCalls |-> "send_prompt"]
    /\ callServer = [c \in 1..NumCalls |-> ""]
    /\ issued = <<[call |-> 1, method |-> "tools/call", value |-> 1],
                  [call |-> 1, method |-> "initialize", value |-> 2]>>
    /\ stream \in BOOLEAN
    /\ fronted = FALSE
    /\ pc = "connected"
    /\ prompt_request_id = 1
    /\ init_request_id = 2
    /\ endpoint_url = "/messages/?session_id=s1"
    /\ prompt_sent = TRUE
    /\ task_complete = FALSE
    /\ collected_result = PyNone
    /\ session_configured = FALSE
    /\ reasoning_chunks = <<>>
    /\ message_chunks = <<>>
    /\ has_tool_error = FALSE
    /\ yielded = <<>>
    /\ posted = _initialize_session_with_id(2, "accepted", "accepted").posts
                \o <<Post("tools/call", 1, "accepted")>>
    /\ sent = <<>>
    /\ received = <<>>
    /\ ending = ""
    /\ sse_log = <<"open">>
    /\ endpoint_events = 1
    /\ wait_pc = "sent"
    /\ wait_ticks = WaitTicks
    /\ marker_tick = NoMarker

\* lines 238-408: a message event with one of PayloadLines as its data
PayloadEvent ==
    /\ pc = "connected"
    /\ prompt_sent
    /\ Len(sent) < MaxEvents
    /\ \E line \in PayloadLines(prompt_request_id) : ServerWritesLine(line)
    /\ ConnectionFollows
    /\ UNCHANGED <<idVars, sys_stdout, sys_stderr, gw_trace, healthVars, bridgeVars, lifeVars, argVars,
                   prompt_request_id, init_request_id, endpoint_url,
                   prompt_sent, posted, endpoint_events, waitVars>>

InitEvents == PromptAccepted /\ GatewayStarted /\ HealthCheckFresh /\ BridgeStarted

NextEvents ==
    \/ PayloadEvent
    \/ StreamCloses
    \/ StreamFails

SpecEvents == InitEvents /\ [][NextEvents]_vars

---------------------------------------------------------------------------
(* mcp_sse_client.py : MCPSSEClient.health_check and list_tools            *)

\* entries of health_check's status dict: f"healthy ({tool_count} tools)",
\* "unhealthy (no tools)", "timeout", f"error: {str(e)[:50]}"
HealthyStatus(tool_count) == [text |-> "healthy", tool_count |-> tool_count]
UnhealthyStatus == [text |-> "unhealthy (no tools)"]
TimeoutStatus == [text |-> "timeout"]
ErrorStatus == [text |-> "error"]

\* how a list_tools call ends: it returns a value (None when the loop is
\* exhausted) or raises
Returned(result) == [kind |-> "returned", result |-> result]
\* line 637, "return result": the result of the response `data` (id: the
\* identifier that response carried, kept for the record)
ReturnedResponse(data) ==
    [kind |-> "returned", result |-> data.result, id |-> Get(data, "id", NoId)]
Raised(exc) == [kind |-> "raised", exc |-> exc]

\* lines 661-673 of health_check: the entry written for one server
health_entry(outcome) ==
    IF outcome.kind = "raised" THEN
        IF outcome.exc = "TimeoutError" THEN TimeoutStatus ELSE ErrorStatus
    ELSE
        LET result == outcome.result IN
        IF result # PyNone /\ result # EmptyDict /\ "tools" \in DOMAIN result
        THEN HealthyStatus(Len(result.tools))
        ELSE UnhealthyStatus

\* health_check without its except clauses (faulty variant): an exception
\* out of list_tools leaves health_check, no entry is written and no
\* further server is probed
ProbeEnds_uncaught(outcome) ==
    /\ status' = IF outcome.kind = "raised" THEN status
                 ELSE status @@ (ServerNames[hc_next] :> health_entry(outcome))
    /\ lt_outcome' = lt_outcome @@
           (ServerNames[hc_next] :> (outcome @@ [request_id |-> lt_request_id]))
    /\ hc_next' = IF outcome.kind = "raised" THEN Len(ServerNames) + 1
                  ELSE hc_next + 1
    /\ lt_pc' = "idle"

\* the list_tools call awaited by health_check ends with `outcome`: the
\* entry is written and the loop of line 656 moves to the next server
ProbeEnds(outcome) ==
    /\ status' = status @@ (ServerNames[hc_next] :> health_entry(outcome))
    /\ lt_outcome' = lt_outcome @@
           (ServerNames[hc_next] :> (outcome @@ [request_id |-> lt_request_id]))
    /\ hc_next' = hc_next + 1
    /\ lt_pc' = "idle"

ToolLists == {<<>>, <<"codex">>, <<"codex", "codex-reply">>}

\* the data of the message events a server may send to a list_tools call
ToolsLines(reqid) ==
    {JsonLine(FALSE, TRUE, ResponseObj(reqid, [tools |-> t])) : t \in ToolLists}
    \cup {JsonLine(FALSE, TRUE, ResponseObj(reqid + 1, InitPayload)),
          JsonLine(FALSE, TRUE, ResponseObj(reqid + 2, [tools |-> <<"other">>])),
          JsonLine(FALSE, TRUE, ErrorObj(reqid, "no such method")),
          JsonLine(FALSE, TRUE, CodexEvent(MsgSessionConfigured)),
          BrokenLine("{", {})}

\* health_check line 660 and list_tools lines 565-588: the next server is
\* probed, the request is built with a fresh id, the connection is opened
ListToolsStart ==
    /\ hc_next <= Len(ServerNames)
    /\ lt_pc = "idle"
    /\ LET r == _get_next_id(_message_id) IN
        /\ _message_id' = r.mid
        /\ lt_request_id' = r.ret
        /\ issued' = Append(issued, [call |-> hc_next, method |-> "tools/list",
                                     value |-> r.ret])
    /\ lt_pc' = "connected"
    /\ lt_endpoint_url' = NoUrl
    /\ lt_request_sent' = FALSE
    /\ lt_posted' = <<>>
    /\ UNCHANGED <<callPc, callKind, callServer, _client_instance, gwVars, lifeVars, promptVars, bridgeVars, status, hc_next, lt_outcome>>

\* lines 500-553, _initialize_session: the same two POSTs and the same tests
\* as _initialize_session_with_id, the id being one it took itself
_initialize_session(init_id, init, notif) ==
    _initialize_session_with_id(init_id, init, notif)

\* list_tools lines 599-624 with _initialize_session (500-553): the first
\* endpoint event
ListToolsEndpoint ==
    /\ lt_pc = "connected"
    /\ lt_endpoint_url = NoUrl
    /\ \E init \in PostOutcomes, notif \in PostOutcomes, req \in PostOutcomes :
        LET r == _get_next_id(_message_id)
            h == _initialize_session(r.ret, init, notif)
            initialized == h.ok
            p3 == IF initialized
                  THEN <<Post("tools/list", lt_request_id, req)>>
                  ELSE <<>>
        IN  /\ _message_id' = r.mid
            /\ issued' = Append(issued, [call |-> hc_next, method |-> "initialize",
                                         value |-> r.ret])
            /\ lt_posted' = lt_posted \o h.posts \o p3
            /\ IF initialized /\ req = "accepted" THEN
                   /\ lt_endpoint_url' = "/messages/?session_id=s1"
                   /\ lt_request_sent' = TRUE
                   /\ UNCHANGED <<status, hc_next, lt_pc, lt_outcome>>
               ELSE
                   /\ ProbeEnds(Raised("Exception"))
                   /\ UNCHANGED <<lt_endpoint_url, lt_request_sent>>
    /\ UNCHANGED <<callPc, callKind, callServer, _client_instance, gwVars, lifeVars, promptVars, bridgeVars, lt_request_id>>

\* list_tools lines 627-644: a message event after the request was sent
ListToolsMessage ==
    /\ lt_pc = "connected"
    /\ lt_request_sent
    /\ \E event_data \in ToolsLines(lt_request_id) :
        IF ~event_data.valid THEN
            UNCHANGED <<status, hc_next, lt_pc, lt_outcome>>
        ELSE
            LET data == loads(event_data) IN
            IF "result" \in DOMAIN data THEN
                IF "tools" \in DOMAIN data.result
                THEN ProbeEnds(ReturnedResponse(data))
                ELSE UNCHANGED <<status, hc_next, lt_pc, lt_outcome>>
            ELSE IF "error" \in DOMAIN data THEN
                ProbeEnds(Raised("Exception"))
            ELSE UNCHANGED <<status, hc_next, lt_pc, lt_outcome>>
    /\ UNCHANGED <<idVars, gwVars, lifeVars, promptVars, bridgeVars, lt_request_id, lt_endpoint_url,
                   lt_request_sent, lt_posted>>

\* the connection closes: the "async for" is exhausted and list_tools
\* falls off its end, returning None
ListToolsCloses ==
    /\ lt_pc = "connected"
    /\ ProbeEnds(Returned(PyNone))
    /\ UNCHANGED <<idVars, gwVars, lifeVars, promptVars, bridgeVars, lt_request_id, lt_endpoint_url,
                   lt_request_sent, lt_posted>>

\* lines 646-648: connecting or reading raises; list_tools re-raises
ListToolsRaises ==
    /\ lt_pc = "connected"
    /\ \E exc \in {"TimeoutError", "Exception"} : ProbeEnds(Raised(exc))
    /\ UNCHANGED <<idVars, gwVars, lifeVars, promptVars, bridgeVars, lt_request_id, lt_endpoint_url,
                   lt_request_sent, lt_posted>>

InitHealth ==
    /\ ClientIdle
    /\ GatewayStarted
    /\ NoPromptCall
    /\ HealthCheckFresh
    /\ BridgeStarted

NextHealth ==
    \/ ListToolsStart
    \/ ListToolsEndpoint
    \/ ListToolsMessage
    \/ ListToolsCloses
    \/ ListToolsRaises

SpecHealth == InitHealth /\ [][NextHealth]_vars

\* ---------------------------------------------------------------------
\* The bridge (services/bridge.py) with its session manager
\* (services/session_manager.py) and voice table
\* (config/voice_personalities.py).  Time is datetime.now() in minutes.
\* A text is the sequence of its words; lower() acts word by word, and
\* `keyword in text_lower` is containment of the keyword's words in a row.
\* ---------------------------------------------------------------------

\* the clock stops at MaxMinutes while voice commands are followed, at
\* MaxEmailMinutes while email requests are; a session holds at most
\* MaxTurns turns when a command begins
MaxMinutes == 31
MaxEmailMinutes == 61
MaxTurns == 3

\* SessionManager.__init__: session_timeout_minutes
session_timeout == 30
\* get_context_string: max_turns
max_turns == 10

SessionIds == {"s1"}

\* time passes between two steps of the bridge
Elapses == {30, 31}
TimePasses(limit) ==
    /\ \E minutes \in Elapses :
        /\ now + minutes <= limit
        /\ now' = now + minutes
    /\ UNCHANGED <<idVars, gwVars, lifeVars, promptVars, healthVars,
                   sessionVars, voiceVars, emailVars>>
Tick == TimePasses(MaxMinutes)
EmailTick == TimePasses(MaxEmailMinutes)

\* AGENT_VOICES[agent]["voice"] and FALLBACK_VOICE["voice"]
AGENT_VOICES ==
    [router |-> "en_GB-alan-medium", office |-> "en_GB-jenny_dioco-medium",
     analyst |-> "en_US-joe-medium",
     procurement |-> "en_GB-northern_english_male-medium",
     engineering |-> "en_US-danny-low",
     accounting |-> "en_GB-jenny_dioco-medium"]
FALLBACK_VOICE == "en_US-amy-medium"
get_agent_voice(agent) ==
    IF agent \in DOMAIN AGENT_VOICES THEN AGENT_VOICES[agent] ELSE FALLBACK_VOICE

\* str.title() of the agent names
title(agent) ==
    [router |-> "Router", office |-> "Office", analyst |-> "Analyst",
     procurement |-> "Procurement", engineering |-> "Engineering",
     accounting |-> "Accounting"][agent]

\* a turn (its timestamp, read by link_sessions only, is left out)
ConversationTurn(role, content, agent) ==
    [role |-> role, content |-> content, agent |-> agent]

\* ConversationSession.add_turn
add_turn(session, role, content, agent) ==
    [session EXCEPT !.context = Append(@, ConversationTurn(role, content, agent)),
                    !.last_active = now]

\* ConversationSession.get_context_string: one <<label, content>> per line
get_context_string(session, turns) ==
    LET n == Len(session.context)
        recent_turns == IF n <= turns THEN session.context
                        ELSE SubSeq(session.context, n - turns + 1, n)
    IN  [i \in 1..Len(recent_turns) |->
            <<IF recent_turns[i].role = "user" THEN "User"
              ELSE title(recent_turns[i].agent),
              recent_turns[i].content>>]

\* ConversationSession.is_expired that never expires (faulty variant)
is_expired_never(session, timeout_minutes) == FALSE

\* ConversationSession.is_expired
is_expired(session, timeout_minutes) ==
    now - session.last_active > timeout_minutes

\* SessionManager._cleanup_expired_sessions, one round of its loop
CleanupExpiredSessions ==
    /\ \E session_id \in DOMAIN sessions :
        is_expired(sessions[session_id], session_timeout)
    /\ sessions' = [session_id \in
                       {id \in DOMAIN sessions :
                           ~is_expired(sessions[id], session_timeout)}
                    |-> sessions[session_id]]
    /\ UNCHANGED <<idVars, gwVars, lifeVars, promptVars, healthVars, now,
                   session_trace, voiceVars, emailVars>>

\* SessionManager.create_session: the new session and the dict with it
create_session(ss, session_id, channel, agent) ==
    LET session == [session_id |-> session_id, channel |-> channel,
                    current_agent |-> agent,
                    voice_personality |-> get_agent_voice(agent),
                    context |-> <<>>, created_at |-> now, last_active |-> now]
    IN  [ret |-> "created", sessions |-> (session_id :> session) @@ ss]

\* SessionManager.get_session: what it returns ("session" or None) and the
\* dict after it
get_session(ss, session_id) ==
    IF session_id \in DOMAIN ss /\ ~is_expired(ss[session_id], session_timeout)
    THEN [ret |-> "session",
          sessions |-> [ss EXCEPT ![session_id].last_active = now]]
    ELSE [ret |-> None, sessions |-> ss]

\* SessionManager.get_or_create_session
get_or_create_session(ss, session_id, channel, agent) ==
    LET got == get_session(ss, session_id)
    IN  IF got.ret # None THEN got
        ELSE create_session(ss, session_id, channel, agent)

\* what a call of get_session / get_or_create_session met and returned
Trace(op, ss, session_id, done) ==
    LET known == session_id \in DOMAIN ss
        returned == done.ret # None
    IN  [op |-> op, session_id |-> session_id,
         stale |-> known /\ now - ss[session_id].last_active > session_timeout,
         ret |-> done.ret,
         fresh |-> /\ returned
                   /\ done.sessions[session_id].context = <<>>
                   /\ done.sessions[session_id].created_at = now,
         renewed |-> returned /\ done.sessions[session_id].last_active = now]

\* process_with_session: the dict after it and the context it returns
process_with_session(ss, session_id, prompt, agent, channel) ==
    LET got == get_or_create_session(ss, session_id, channel, agent)
        session == add_turn(got.sessions[session_id], "user", prompt, agent)
    IN  [sessions |-> [got.sessions EXCEPT ![session_id] = session],
         context |-> get_context_string(session, max_turns),
         trace |-> Trace("get_or_create_session", ss, session_id, got)]

\* record_response
record_response(ss, session_id, response, agent) ==
    LET got == get_session(ss, session_id)
    IN  [sessions |->
            IF got.ret # None
            THEN [got.sessions EXCEPT ![session_id] =
                     add_turn(@, "assistant", response, agent)]
            ELSE got.sessions,
         trace |-> Trace("get_session", ss, session_id, got)]

\* GET /sessions/{session_id}: get_session_summary calls get_session
SessionSummary ==
    /\ \E session_id \in SessionIds :
        LET got == get_session(sessions, session_id)
        IN  /\ sessions' = got.sessions
            /\ session_trace' = Trace("get_session", sessions, session_id, got)
    /\ UNCHANGED <<idVars, gwVars, lifeVars, promptVars, healthVars, now,
                   voiceVars, emailVars>>

\* str.lower() of a word, and of a text
Capitalised == [Hey |-> "hey", Office |-> "office", Purchase |-> "purchase"]
lower_word(word) ==
    IF word \in DOMAIN Capitalised THEN Capitalised[word] ELSE word
lower(text) == [i \in 1..Len(text) |-> lower_word(text[i])]

\* AGENT_KEYWORDS, in the order of the dict
AGENT_KEYWORDS ==
    << [agent |-> "office", keywords |->
          {<<"office">>, <<"assistant">>, <<"calendar">>, <<"schedule">>,
           <<"meeting">>, <<"email">>, <<"teams">>, <<"appointment">>,
           <<"reminder">>, <<"task">>}],
       [agent |-> "analyst", keywords |->
          {<<"analyst">>, <<"market">>, <<"stock">>, <<"trading">>,
           <<"finance">>, <<"price">>, <<"portfolio">>, <<"investment">>,
           <<"earnings">>, <<"analysis">>}],
       [agent |-> "procurement", keywords |->
          {<<"procurement">>, <<"purchase">>, <<"vendor">>, <<"supplier">>,
           <<"order">>, <<"quote">>, <<"contract">>, <<"sourcing">>,
           <<"negotiate">>, <<"cost">>}],
       [agent |-> "engineering", keywords |->
          {<<"engineering">>, <<"code">>, <<"technical">>, <<"build">>,
           <<"deploy">>, <<"debug">>, <<"system">>, <<"server">>,
           <<"database">>, <<"architecture">>}],
       [agent |-> "accounting", keywords |->
          {<<"accounting">>, <<"invoice">>, <<"payment">>, <<"expense">>,
           <<"budget">>, <<"financial">>, <<"books">>, <<"ledger">>,
           <<"reconcile">>, <<"audit">>}],
       [agent |-> "router", keywords |->
          {<<"router">>, <<"general">>, <<"help">>, <<"deep", "thought">>,
           <<"think">>, <<"question">>, <<"wondering">>, <<"curious">>,
           <<"explain">>, <<"understand">>}] >>

\* keyword in text_lower
occurs(keyword, text_lower) ==
    \E i \in 1..(Len(text_lower) - Len(keyword) + 1) :
        SubSeq(text_lower, i, i + Len(keyword) - 1) = keyword

\* the loop of get_agent_from_keywords from the i-th agent on
RECURSIVE best_from(_, _, _, _)
best_from(i, text_lower, best_match, best_score) ==
    IF i > Len(AGENT_KEYWORDS) THEN best_match
    ELSE LET score == Cardinality({keyword \in AGENT_KEYWORDS[i].keywords :
                                      occurs(keyword, text_lower)})
         IN  IF score > best_score
             THEN best_from(i + 1, text_lower, AGENT_KEYWORDS[i].agent, score)
             ELSE best_from(i + 1, text_lower, best_match, best_score)

get_agent_from_keywords(text) ==
    LET best_match == best_from(1, lower(text), None, 0)
    IN  IF best_match = None THEN "router" ELSE best_match

\* handle_voice_command: server_map
server_map ==
    (<<"router">> :> "router") @@ (<<"assistant">> :> "router") @@
    (<<"deep", "thought">> :> "router") @@ (<<"office">> :> "office") @@
    (<<"hey", "office">> :> "office") @@ (<<"analyst">> :> "analyst") @@
    (<<"hey", "analyst">> :> "analyst") @@
    (<<"procurement">> :> "procurement") @@
    (<<"engineering">> :> "engineering") @@
    (<<"accounting">> :> "accounting")

\* handle_voice_command, lines 201-222: the server a request is routed to
select_server(request) ==
    IF request.two_stage_mode THEN get_agent_from_keywords(request.text)
    ELSE IF lower(request.wake_word) \in DOMAIN server_map
         THEN server_map[lower(request.wake_word)]
         ELSE "router"

\* the keys of MCPSSEClient.servers
servers == {ServerNames[i] : i \in 1..Len(ServerNames)}

\* the `result` contents send_prompt can end with (lines 277-281, 321-330,
\* 369-370), and the terminal elements of a call
PromptResults ==
    {text_result("Answer"),
     [reasoning |-> "why", message |-> "Answer", had_retry |-> FALSE],
     ResultPayload}
PromptOutcomes ==
    {[type |-> "result", content |-> result] : result \in PromptResults}
    \cup {[type |-> "error",
           content |-> "Connection closed without receiving a response"]}

\* handle_voice_command, lines 254-261: the text taken from send_to_mcp's
\* return value ("raised" when the subscript fails)
response_text(response) ==
    IF "result" \in DOMAIN response
    THEN LET result == response.result
         IN  IF ~is_str(result) /\ "content" \in DOMAIN result
             THEN IF result.content = <<>> THEN [raised |-> "IndexError"]
                  ELSE [text |-> result.content[1].text]
             ELSE [text |-> ""]
    ELSE [text |-> "str(response)"]

VoiceTexts == {<<"help">>, <<"Purchase", "order">>}
WakeWords == {<<"Hey", "Office">>, <<"procurement">>}
\* VoiceRequest bodies: two-stage requests (wake_word left at its default)
\* and wake-word requests
VoiceRequests ==
    [text : VoiceTexts, wake_word : {<<"router">>}, session_id : SessionIds,
     stream : BOOLEAN, two_stage_mode : {TRUE}]
    \cup [text : {<<"help">>}, wake_word : WakeWords, session_id : SessionIds,
          stream : BOOLEAN, two_stage_mode : {FALSE}]

\* POST /voice/command up to the await of send_to_mcp: the server is
\* selected, the session got or created, the user turn added
VoiceCommandBegins ==
    /\ voice_pc = "idle"
    /\ \E request \in VoiceRequests :
        LET server == select_server(request)
            info == process_with_session(sessions, request.session_id,
                                         request.text, server, "voice")
        IN  /\ Len(info.sessions[request.session_id].context) <= MaxTurns
            /\ sessions' = info.sessions
            /\ session_trace' = info.trace
            /\ voice_request' = [kind |-> "voice", text |-> request.text,
                                 session_id |-> request.session_id,
                                 stream |-> request.stream, server |-> server,
                                 context |-> info.context]
    /\ voice_pc' = "awaiting"
    /\ UNCHANGED <<idVars, gwVars, lifeVars, promptVars, healthVars, now,
                   voice_reply, emailVars>>

\* what a voice command answers
Reply(kind, answer) ==
    [kind |-> kind, session_id |-> voice_request.session_id] @@ answer

\* POST /voice/command from send_to_mcp on: the call on the server ends
\* with `outcome`; a streamed answer is forwarded, a collected one has its
\* text extracted, recorded in the session and returned
VoiceCommandAnswers(outcome) ==
    IF voice_request.stream
    THEN /\ voice_reply' = Reply("stream", [ended |-> outcome.type])
         /\ UNCHANGED sessionVars
    ELSE IF outcome.type # "result"
    THEN /\ voice_reply' = Reply("http_error", [status_code |-> 500])
         /\ UNCHANGED sessionVars
    ELSE LET extracted == response_text([result |-> outcome.content])
         IN  IF "raised" \in DOMAIN extracted
             THEN /\ voice_reply' = Reply("http_error", [status_code |-> 500])
                  /\ UNCHANGED sessionVars
             ELSE LET recorded == record_response(sessions,
                                      voice_request.session_id,
                                      extracted.text, voice_request.server)
                  IN  /\ sessions' = recorded.sessions
                      /\ session_trace' = recorded.trace
                      /\ voice_reply' = Reply("json",
                             [response |-> extracted.text,
                              result |-> outcome.content])

\* send_prompt's first statement: raise ValueError(f"Unknown server: ...")
UnknownServer == [type |-> "raised", content |-> "Unknown server"]

VoiceCommandEnds ==
    /\ voice_pc = "awaiting"
    /\ IF voice_request.server \notin servers
       THEN VoiceCommandAnswers(UnknownServer)
       ELSE \E outcome \in PromptOutcomes : VoiceCommandAnswers(outcome)
    /\ voice_pc' = "idle"
    /\ voice_request' = NoRequest
    /\ UNCHANGED <<idVars, gwVars, lifeVars, promptVars, healthVars, now,
                   emailVars>>

InitVoice ==
    /\ ClientIdle
    /\ GatewayStarted
    /\ NoPromptCall
    /\ HealthCheckFresh
    /\ BridgeStarted

NextVoice ==
    \/ Tick
    \/ VoiceCommandBegins
    \/ VoiceCommandEnds
    \/ SessionSummary
    \/ CleanupExpiredSessions

SpecVoice == InitVoice /\ [][NextVoice]_vars

\* ---------------------------------------------------------------------
\* POST /email/route (bridge.handle_email_route).  A resource is the
\* sequence of the parts its path splits into at "/".
\* ---------------------------------------------------------------------

\* timedelta(hours=1) of line 376 and idempotency_window, in minutes
cleanup_interval == 60
idempotency_window == 1440

MessageIds == {"m1", "m2"}
EmailNotification(resource) == [changeType |-> "created", resource |-> resource]
MessageResource(message_id) == <<"users", "u1", "messages", message_id>>

\* request bodies: one notification of a message, the same message twice,
\* a resource that names no message
EmailBodies ==
    {[value |-> <<EmailNotification(MessageResource(m))>>] : m \in MessageIds}
    \cup {[value |-> <<EmailNotification(MessageResource("m1")),
                       EmailNotification(MessageResource("m1"))>>],
          [value |-> <<EmailNotification(<<"users", "u1">>)>>]}

\* the loop of lines 391-444 over the notifications still to handle
RECURSIVE route_notifications(_, _, _)
route_notifications(notifications, processed, results) ==
    IF notifications = <<>>
    THEN [processed |-> processed, results |-> results]
    ELSE LET parts == Get(Head(notifications), "resource", <<>>)
         IN  IF Len(parts) >= 4 /\ parts[3] = "messages"
             THEN IF parts[4] \in processed
                  THEN route_notifications(Tail(notifications), processed,
                                           results)
                  ELSE route_notifications(
                           Tail(notifications), processed \cup {parts[4]},
                           Append(results, [messageId |-> parts[4],
                                            status |-> "routed"]))
             ELSE route_notifications(Tail(notifications), processed, results)

\* handle_email_route up to `await request.json()`: the set of processed
\* ids is cleared when the last clearing is more than an hour old
EmailRouteBegins ==
    /\ \E r \in 1..NumEmailRequests :
        /\ email_pc[r] = "idle"
        /\ email_pc' = [email_pc EXCEPT ![r] = "parsing"]
    /\ IF now - last_cleanup > cleanup_interval
       THEN /\ processed_message_ids' = {}
            /\ last_cleanup' = now
       ELSE UNCHANGED <<processed_message_ids, last_cleanup>>
    /\ UNCHANGED <<idVars, gwVars, lifeVars, promptVars, healthVars, now,
                   sessionVars, voiceVars, routed>>

\* handle_email_route from the parsed body on: a validation request is
\* answered with its token; otherwise each notification of a message not
\* yet processed is marked and routed
EmailRouteEnds ==
    /\ \E r \in 1..NumEmailRequests :
        /\ email_pc[r] = "parsing"
        /\ email_pc' = [email_pc EXCEPT ![r] = "idle"]
    /\ \E validation \in BOOLEAN, body \in EmailBodies :
        IF validation
        THEN UNCHANGED <<processed_message_ids, routed>>
        ELSE LET done == route_notifications(body.value,
                                             processed_message_ids, <<>>)
             IN  /\ processed_message_ids' = done.processed
                 /\ routed' = routed \o
                        [i \in 1..Len(done.results) |->
                            <<done.results[i].messageId, now>>]
    /\ UNCHANGED <<idVars, gwVars, lifeVars, promptVars, healthVars, now,
                   sessionVars, voiceVars, last_cleanup>>

InitEmail ==
    /\ ClientIdle
    /\ GatewayStarted
    /\ NoPromptCall
    /\ HealthCheckFresh
    /\ BridgeStarted

NextEmail ==
    \/ EmailTick
    \/ EmailRouteBegins
    \/ EmailRouteEnds

SpecEmail == InitEmail /\ [][NextEmail]_vars

---------------------------------------------------------------------------
(* Claims about the Process Boundary Translator (SpecGateway)              *)

\* the subprocess lines filter_stdout has read that are codex/event objects
IsCodexEventLine(line) ==
    /\ strip(line).kind = "json" /\ strip(line).open = "{" /\ strip(line).valid
    /\ Get(loads(strip(line)), "method", <<>>) = CodexEventMethod

InnerMsg(line) == Get(Get(loads(strip(line)), "params", EmptyDict), "msg", EmptyDict)
InnerType(line) == Get(InnerMsg(line), "type", None)

\* the emitted line parses to the same structure as the subprocess line
PassedThrough(t) ==
    Len(t.out) = 1 /\ t.out[1].valid /\ loads(t.out[1]) = loads(strip(t.line))

\* C6: every codex/event line read whose inner type is task_complete is
\* emitted as one JSON line that parses to exactly the parsed input, and no
\* codex/event line of another inner type is emitted with its structure
\* unchanged.
C6_TaskCompletePassThrough ==
    \A i \in 1..Len(gw_trace) :
        IsCodexEventLine(gw_trace[i].line) =>
            (PassedThrough(gw_trace[i]) <=> InnerType(gw_trace[i].line) = "task_complete")

\* C6 witness: a task_complete line that was written indented and spaced by
\* the subprocess has been emitted (compacted, same parsed structure), and a
\* delta line has been re-encoded.
C6_Witness ==
    /\ \E i \in 1..Len(gw_trace) :
        /\ IsCodexEventLine(gw_trace[i].line)
        /\ InnerType(gw_trace[i].line) = "task_complete"
        /\ gw_trace[i].line.indent /\ ~gw_trace[i].line.compact
        /\ Len(gw_trace[i].out) = 1
        /\ gw_trace[i].out[1] # gw_trace[i].line
    /\ \E i \in 1..Len(gw_trace) :
        /\ IsCodexEventLine(gw_trace[i].line)
        /\ InnerType(gw_trace[i].line) = "agent_message_delta"
        /\ Len(gw_trace[i].out) = 1

\* the four banner phrases the claim fixes
FixedBannerPhrases ==
    {"MCP Doc Forge Server", "Server is running", "Starting", "Listening"}

\* C7: every line read whose content (whitespace at its ends aside) is blank
\* or begins with neither '{' nor '[' puts nothing on the output stream, and
\* if it contains a banner phrase it puts exactly one "dropped banner" entry
\* on the error stream.
C7_BannerSuppressed ==
    \A i \in 1..Len(gw_trace) :
        LET t == gw_trace[i] IN
        strip(t.line).kind \in {"blank", "text"} =>
            /\ t.out = <<>>
            /\ (t.line.phrases \cap FixedBannerPhrases # {} =>
                    Len(t.err) = 1 /\ t.err[1].tag = "dropped banner")

\* C7 witness: the line "Server is running on port 8081" was read: nothing
\* on stdout, one diagnostic on stderr.
C7_Witness ==
    /\ Len(gw_trace) >= 1
    /\ gw_trace[1].line = TextLine(FALSE, {"Server is running"})
    /\ sys_stdout = <<>>
    /\ Len(sys_stderr) = 1

RecognizedTypes ==
    {"session_configured", "agent_message_delta", "agent_reasoning_delta",
     "agent_reasoning_raw_content_delta", "mcp_tool_call_begin",
     "mcp_tool_call_end", "task_complete"}

\* C8: every codex/event line read whose inner type is not a recognized one
\* produces exactly one emitted line, a notifications/message notification
\* whose params.data is the inner event payload.
C8_UnknownEventWrapped ==
    \A i \in 1..Len(gw_trace) :
        LET t == gw_trace[i] IN
        (IsCodexEventLine(t.line) /\ InnerType(t.line) \notin RecognizedTypes) =>
            /\ Len(t.out) = 1
            /\ t.out[1].valid
            /\ loads(t.out[1]).method = <<"notifications", "message">>
            /\ loads(t.out[1]).params.data = InnerMsg(t.line)

\* C8 witness: {"type":"custom_thing","foo":1} was read and one line was
\* written to stdout for it.
C8_Witness ==
    \E i \in 1..Len(gw_trace) :
        /\ IsCodexEventLine(gw_trace[i].line)
        /\ InnerMsg(gw_trace[i].line) = MsgCustom
        /\ Len(gw_trace[i].out) = 1
        /\ Len(sys_stdout) >= 1


\* C26: every line read that is valid JSON, an object or an array, is
\* emitted (the session_configured event aside, which the conversion
\* drops), with the structure json.loads gave it unless it is a codex/event;
\* every line that starts with '{' or '[' and does not parse puts nothing
\* on the output and one "invalid JSON" entry on the error stream; and
\* filter_stdout never left its loop on a line (it printed no "stdout
\* error"), so the lines after it are processed.
C26_EveryLineProcessed ==
    /\ \A i \in 1..Len(gw_trace) :
        LET t == gw_trace[i] IN
        /\ (/\ strip(t.line).kind = "json" /\ strip(t.line).valid
             /\ ~(IsCodexEventLine(t.line)
                   /\ InnerType(t.line) = "session_configured"))
            => Len(t.out) = 1
        /\ (/\ strip(t.line).kind = "json" /\ strip(t.line).valid
             /\ ~IsCodexEventLine(t.line))
            => PassedThrough(t)
        /\ (strip(t.line).kind = "json" /\ ~strip(t.line).valid)
            => (/\ t.out = <<>>
                /\ Len(t.err) = 1 /\ t.err[1].tag = "invalid JSON")
    /\ \A k \in 1..Len(sys_stderr) : sys_stderr[k].tag # "stdout error"

---------------------------------------------------------------------------
(* Claims about the gateway's shutdown and exit (SpecLifecycle)            *)

SignalReceived == shutdown_tasks # <<>>

\* C19: after a termination signal the subprocess is first asked to
\* terminate; kill() is called only by a shutdown task whose grace interval
\* is over, after a terminate(), and only while the subprocess still runs;
\* and once a signal was received the subprocess is eventually not running.
C19_GracefulThenKill ==
    /\ [][\A k \in 1..Len(proc_signals') :
            (k > Len(proc_signals) /\ proc_signals'[k] = "kill")
            => /\ process = Running
               /\ \E i \in 1..Len(shutdown_tasks) :
                      shutdown_tasks[i] = "sleeping" /\ shutdown_tasks'[i] = "done"
               /\ \E j \in 1..(k - 1) : proc_signals'[j] = "terminate"]_vars
    /\ SignalReceived ~> (process # Running)

\* C20: once the subprocess has exited, by itself or after a signal, the
\* gateway eventually stops (and exits), whatever the caller does with the
\* gateway's stdin, be it nothing.
C20_ExitFollowsSubprocess ==
    (process # Running) ~> (gateway = "stopped")

\* C21: a gateway that exits after launching the subprocess ends with the
\* subprocess's exit code (the returncode read at line 50), whatever
\* happened to its forwarding coroutines.
C21_ExitCodeIsSubprocess ==
    gateway = "stopped" => exit_status = process.returncode

RECURSIVE Emitted(_)
\* what the lines of a trace put on the output, in the order of the lines
Emitted(trace) ==
    IF trace = <<>> THEN <<>>
    ELSE Emitted(SubSeq(trace, 1, Len(trace) - 1)) \o trace[Len(trace)].out

\* C30: the gateway's stdout holds, in the order of the subprocess's stdout
\* lines, at most one line per such line; each is one compact JSON value
\* and none is a diagnostic; and stdout grows only in a step in which
\* filter_stdout read a line of the subprocess's stdout (not when the
\* subprocess writes to stderr, nor when the gateway prints a diagnostic
\* about stdin or a signal).
C30_OutputIsProtocolOnly ==
    /\ [](sys_stdout = Emitted(gw_trace))
    /\ [](\A i \in 1..Len(gw_trace) : Len(gw_trace[i].out) <= 1)
    /\ [](\A k \in 1..Len(sys_stdout) :
            /\ "tag" \notin DOMAIN sys_stdout[k]
            /\ sys_stdout[k].kind = "json"
            /\ sys_stdout[k].valid
            /\ sys_stdout[k].compact
            /\ ~sys_stdout[k].indent)
    /\ [][sys_stdout' # sys_stdout
          => (/\ Len(gw_trace') = Len(gw_trace) + 1
              /\ sys_stdout' = sys_stdout \o gw_trace'[Len(gw_trace')].out
              /\ stdin_lines' = stdin_lines)]_vars

\* C30 witness: two subprocess lines, the first written indented and
\* spaced, were emitted compact and in their order, and the caller had
\* written to the gateway's stdin.
C30_Witness ==
    /\ Len(sys_stdout) = 2
    /\ Len(gw_trace) = 2
    /\ gw_trace[1].line = JsonLine(TRUE, FALSE, CodexEvent(MsgDelta("Hel")))
    /\ gw_trace[2].line = JsonLine(FALSE, TRUE, CodexEvent(MsgTaskComplete("Done")))
    /\ sys_stdout[1] # gw_trace[1].line
    /\ loads(sys_stdout[2]) = CodexEvent(MsgTaskComplete("Done"))
    /\ stdin_lines >= 1

---------------------------------------------------------------------------
(* Claims about send_prompt (SpecPrompt)                                   *)
(*                                                                         *)
(* sent is the sequence of lines the agent server wrote after the prompt   *)
(* request was sent; each was handled by the loop body (behind the         *)
(* gateway: after filter_stdout) in the step that appended it.             *)

LastSent == sent[Len(sent)]
LastYield == yielded[Len(yielded)]

SentObject(line) == IF line.valid THEN loads(line) ELSE EmptyDict
SentMethod(line) == Get(SentObject(line), "method", <<>>)
SentInner(line) == Get(Get(SentObject(line), "params", EmptyDict), "msg", EmptyDict)

\* a message-delta event, in its native form
IsNativeDelta(line) ==
    /\ SentMethod(line) = CodexEventMethod
    /\ Get(SentInner(line), "type", None) = "agent_message_delta"

\* a message-delta event, in the form the gateway emits
IsWireDelta(line) ==
    /\ is_notification(SentMethod(line))
    /\ Get(Get(SentObject(line), "params", EmptyDict), "type", "") = "agent_message_delta"

IsMessageDelta(line) == IsNativeDelta(line) \/ IsWireDelta(line)

DeltaText(line) ==
    IF IsNativeDelta(line)
    THEN Get(SentInner(line), "delta", "")
    ELSE Get(Get(SentObject(line), "params", EmptyDict), "delta", "")

RECURSIVE DeltaTexts(_)
\* the concatenation of the fragments of a sequence of message-delta lines
DeltaTexts(lines) ==
    IF lines = <<>> THEN "" ELSE DeltaText(Head(lines)) \o DeltaTexts(Tail(lines))

\* a task_complete event, in its native form (the form the gateway passes on)
IsNativeTaskComplete(line) ==
    /\ SentMethod(line) = CodexEventMethod
    /\ Get(SentInner(line), "type", None) = "task_complete"

\* a task_complete event, in the method-named form
IsMethodTaskComplete(line) == SentMethod(line) = <<"task_complete">>

IsTaskComplete(line) == IsNativeTaskComplete(line) \/ IsMethodTaskComplete(line)

\* the final text a task_complete event carries
FinalText(line) ==
    IF IsNativeTaskComplete(line)
    THEN Get(SentInner(line), "last_agent_message", "")
    ELSE Get(Get(SentObject(line), "params", EmptyDict), "last_agent_message", "")

\* the text of a result, in either shape send_prompt assembles
ResultText(r) ==
    IF "content" \in DOMAIN r THEN r.content[1].text
    ELSE IF "message" \in DOMAIN r THEN r.message
    ELSE None

EndsWithResultText(t) ==
    /\ Len(yielded) >= 1
    /\ LastYield.type = "result"
    /\ ResultText(LastYield.content) = t

\* C2: once the server has written message-delta events f1..fn (n >= 1, native
\* form; behind the gateway the client sees the translator's form) followed by
\* a task_complete event without final text, and nothing else, the call ends
\* with a result whose text is f1 \o ... \o fn.
C2_FragmentUnion ==
    (/\ pc = "done"
     /\ ending \in {"returned", "closed"}
     /\ Len(sent) >= 2
     /\ \A i \in 1..(Len(sent) - 1) : IsNativeDelta(sent[i])
     /\ IsNativeTaskComplete(LastSent)
     /\ ~Truthy(FinalText(LastSent)))
    => EndsWithResultText(DeltaTexts(SubSeq(sent, 1, Len(sent) - 1)))

\* C3: when the last line written is a task_complete event (either form)
\* carrying a non-empty final text T and no message-delta was written before
\* it, the call has ended, in the step that handled it, with a result whose
\* text is T.
C3_TaskCompleteText ==
    (/\ Len(sent) >= 1
     /\ IsTaskComplete(LastSent)
     /\ Truthy(FinalText(LastSent))
     /\ \A i \in 1..(Len(sent) - 1) : ~IsMessageDelta(sent[i]))
    => (/\ pc = "done"
        /\ ending = "returned"
        /\ EndsWithResultText(FinalText(LastSent)))

\* C3 witness: behind the gateway, task_complete("Done") was the only event;
\* the call returned the result "Done".
C3_Witness ==
    /\ fronted
    /\ sent = <<JsonLine(FALSE, TRUE, CodexEvent(MsgTaskComplete("Done")))>>
    /\ pc = "done"
    /\ EndsWithResultText("Done")

\* C4: when the connection closes after one or more message-delta events
\* and nothing else (no terminal event, no matching response), the call's
\* last element is a result carrying the text assembled from the deltas.
C4_PartialOnClose ==
    (/\ pc = "done"
     /\ ending = "closed"
     /\ Len(sent) >= 1
     /\ \A i \in 1..Len(sent) : IsMessageDelta(sent[i]))
    => EndsWithResultText(DeltaTexts(sent))

\* a message that carries an id other than the prompt request's
HasForeignId(line) ==
    /\ line.valid
    /\ "id" \in DOMAIN loads(line)
    /\ loads(line).id # prompt_request_id

\* C9: a step that handles a message carrying an id other than the call's
\* request id leaves the aggregation state (fragment lists, tool-error flag,
\* terminal flag, collected result) unchanged.
C9_ForeignIdIgnored ==
    [][(Len(sent') = Len(sent) + 1 /\ HasForeignId(sent'[Len(sent')]))
        => /\ message_chunks' = message_chunks
           /\ reasoning_chunks' = reasoning_chunks
           /\ has_tool_error' = has_tool_error
           /\ task_complete' = task_complete
           /\ collected_result' = collected_result]_vars

\* a success response to the prompt request
IsMatchingResult(line) ==
    /\ line.valid
    /\ "method" \notin DOMAIN loads(line)
    /\ Get(loads(line), "id", NoId) = prompt_request_id
    /\ "result" \in DOMAIN loads(line)
    /\ loads(line).result # PyNone

\* C10: while the call reads events no result is assembled yet; when the
\* last line written is a success response whose id is the call's request
\* id, the call has ended, in the step that handled it, with that payload as
\* its result, task_complete seen or not.
C10_ResponseAdopted ==
    /\ pc = "connected" => collected_result = PyNone
    /\ (Len(sent) >= 1 /\ IsMatchingResult(LastSent))
        => (/\ pc = "done"
            /\ ending = "returned"
            /\ Len(yielded) >= 1
            /\ LastYield.type = "result"
            /\ LastYield.content = loads(LastSent).result)

\* C10 witness: a delta, then the matching response; no task_complete event
\* arrived, and the call returned the response's payload.
C10_Witness ==
    /\ Len(sent) = 2
    /\ IsMessageDelta(sent[1])
    /\ IsMatchingResult(sent[2])
    /\ ~task_complete
    /\ pc = "done"
    /\ LastYield = [type |-> "result", content |-> ResultPayload]


\* an error response to the prompt request
IsMatchingError(line) ==
    /\ line.valid
    /\ "method" \notin DOMAIN loads(line)
    /\ Get(loads(line), "id", NoId) = prompt_request_id
    /\ "error" \in DOMAIN loads(line)
    /\ "result" \notin DOMAIN loads(line)

\* the number of error elements the call has yielded
ErrorCount == Cardinality({i \in 1..Len(yielded) : yielded[i].type = "error"})

\* C11: when the last line written is an error response whose id is the
\* call's request id, the call has ended, in the step that handled it, and
\* the one error element it yielded is its last element, carrying the
\* response's error message; the fragments collected before play no part.
C11_ErrorResponseEnds ==
    (Len(sent) >= 1 /\ IsMatchingError(LastSent))
    => (/\ pc = "done"
        /\ ending = "returned"
        /\ ErrorCount = 1
        /\ LastYield = [type |-> "error",
                        content |-> loads(LastSent).error.message])

\* C11 witness: in live-stream mode a message fragment was collected and
\* yielded, then the error response arrived and ended the call.
C11_Witness ==
    /\ stream
    /\ Len(sent) = 2
    /\ message_chunks # <<>>
    /\ IsMatchingError(sent[2])
    /\ pc = "done"
    /\ Len(yielded) = 2
    /\ yielded[2] = [type |-> "error", content |-> "tool failed"]

HandshakeMethods == {"initialize", "notifications/initialized"}

\* the POSTs of one call are, in this order, initialize, then
\* notifications/initialized after an accepted initialize, then the
\* operational request after both were accepted
HandshakeOrdered(log, operational) ==
    \A k \in 1..Len(log) :
        /\ log[k].method \in HandshakeMethods \cup {operational}
        /\ log[k].method = "initialize" => k = 1
        /\ log[k].method = "notifications/initialized" =>
               /\ k = 2
               /\ log[1].method = "initialize" /\ log[1].outcome = "accepted"
        /\ log[k].method = operational =>
               /\ k = 3
               /\ log[1].method = "initialize" /\ log[1].outcome = "accepted"
               /\ log[2].method = "notifications/initialized"
               /\ log[2].outcome = "accepted"

\* C12: within one call the requests are POSTed in the order initialize,
\* notifications/initialized, operational request (tools/call for
\* send_prompt, tools/list for list_tools); the notification only after
\* initialize was accepted, the operational request only after both were.
C12_HandshakeOrder ==
    /\ HandshakeOrdered(posted, "tools/call")
    /\ HandshakeOrdered(lt_posted, "tools/list")

\* C12 witness: the three POSTs of a send_prompt call were made and accepted
\* and the call reads the stream.
C12_Witness ==
    /\ Len(posted) = 3
    /\ \A k \in 1..3 : posted[k].outcome = "accepted"
    /\ posted[3] = Post("tools/call", prompt_request_id, "accepted")
    /\ prompt_sent
    /\ pc = "connected"

\* a handshake POST was rejected or raised
HandshakeFailed(log) ==
    \E k \in 1..Len(log) :
        log[k].method \in HandshakeMethods /\ log[k].outcome # "accepted"

\* C13: when a handshake POST was not accepted (another status, or an
\* exception), the call has ended having yielded one element, an error, and
\* having POSTed no operational request.
C13_HandshakeFailureEnds ==
    HandshakeFailed(posted)
    => (/\ pc = "done"
        /\ Len(yielded) = 1
        /\ yielded[1].type = "error"
        /\ \A k \in 1..Len(posted) : posted[k].method # "tools/call"
        /\ ~prompt_sent
        /\ sent = <<>>)

\* C13 witness: initialize was accepted, the initialized notification
\* raised; the call ended with the handshake error.
C13_Witness ==
    /\ Len(posted) = 2
    /\ posted[1].outcome = "accepted"
    /\ posted[2] = Post("notifications/initialized", NoId, "raised")
    /\ pc = "done"
    /\ yielded = <<[type |-> "error",
                    content |-> "Failed to initialize MCP session"]>>

LastReceived == received[Len(received)]

ReasoningTypes == {"agent_reasoning_delta", "agent_reasoning_raw_content_delta"}

\* the event type of a received event, in its native or its wire form
EventType(line) ==
    IF SentMethod(line) = CodexEventMethod
    THEN Get(SentInner(line), "type", None)
    ELSE IF is_notification(SentMethod(line))
    THEN Get(Get(SentObject(line), "params", EmptyDict), "type", None)
    ELSE None

\* the payload of a received event: msg natively, params on the wire
EventPayload(line) ==
    IF SentMethod(line) = CodexEventMethod
    THEN SentInner(line)
    ELSE Get(SentObject(line), "params", EmptyDict)

IsReasoningDelta(line) == EventType(line) \in ReasoningTypes

\* a message or reasoning delta that carries text
IsLiveDelta(line) ==
    /\ IsMessageDelta(line) \/ IsReasoningDelta(line)
    /\ Truthy(Get(EventPayload(line), "delta", ""))

LiveKind(line) == IF IsReasoningDelta(line) THEN "reasoning" ELSE "message"

RECURSIVE ExpectedLive(_)
\* the non-empty deltas among the received events, in arrival order
ExpectedLive(lines) ==
    IF lines = <<>> THEN <<>>
    ELSE (IF IsLiveDelta(Head(lines))
          THEN <<[kind |-> LiveKind(Head(lines)),
                  content |-> Get(EventPayload(Head(lines)), "delta", "")]>>
          ELSE <<>>) \o ExpectedLive(Tail(lines))

RECURSIVE YieldedLive(_)
\* the non-terminal elements among those yielded, in order
YieldedLive(elements) ==
    IF elements = <<>> THEN <<>>
    ELSE (IF Head(elements).type \notin {"result", "error"}
          THEN <<[kind |-> IF Head(elements).type = "reasoning"
                           THEN "reasoning" ELSE "message",
                  content |-> Head(elements).content]>>
          ELSE <<>>) \o YieldedLive(Tail(elements))

\* C15: in live-stream mode the non-terminal elements yielded so far are, one
\* for one and in arrival order, the non-empty message and reasoning deltas
\* received so far (each yielded in the step that received it).
C15_LiveDeltasInOrder ==
    stream => YieldedLive(yielded) = ExpectedLive(received)

ContractTypes == {"chunk", "reasoning", "result", "error"}

C17_FragmentsPreferred ==
    (/\ pc = "done"
     /\ ending = "returned"
     /\ Len(received) >= 1
     /\ IsTaskComplete(LastReceived)
     /\ Truthy(FinalText(LastReceived)))
    => IF message_chunks # <<>>
       THEN EndsWithResultText(join(message_chunks))
       ELSE EndsWithResultText(FinalText(LastReceived))

\* a tool-call-end event with an embedded error, native or on the wire
IsToolEndError(line) ==
    /\ EventType(line) = "mcp_tool_call_end"
    /\ "error" \in DOMAIN Get(EventPayload(line), "result", EmptyDict)

ToolErrorReceived == \E i \in 1..Len(received) : IsToolEndError(received[i])

\* C18: the step that receives a tool-call-end event with an embedded error
\* yields nothing and does not end the call; from then on the tool-error
\* flag is set; and a result assembled at a task_complete event received
\* after it reports had_retry.
C18_ToolErrorFlagOnly ==
    /\ [][(Len(received') = Len(received) + 1
            /\ IsToolEndError(received'[Len(received')]))
           => (yielded' = yielded /\ pc' = "connected")]_vars
    /\ [][ToolErrorReceived' => has_tool_error']_vars
    /\ [][(/\ ToolErrorReceived'
            /\ pc' = "done" /\ ending' = "returned"
            /\ IsTaskComplete(received'[Len(received')])
            /\ yielded'[Len(yielded')].type = "result")
           => (/\ "had_retry" \in DOMAIN yielded'[Len(yielded')].content
               /\ yielded'[Len(yielded')].content.had_retry = TRUE)]_vars

\* C23: when the connection closed before any endpoint event arrived, the
\* call went on with a constructed default endpoint: it has an endpoint and
\* POSTed the handshake's initialize request to it.
C23_FallbackEndpoint ==
    (ending = "closed" /\ endpoint_events = 0)
    => (/\ endpoint_url # NoUrl
        /\ Len(posted) >= 1
        /\ posted[1].method = "initialize")

\* no fragment, no terminal event and no matching response were collected
NothingCollected ==
    /\ message_chunks = <<>>
    /\ reasoning_chunks = <<>>
    /\ ~task_complete
    /\ collected_result = PyNone

ClosedWithoutResponse ==
    [type |-> "error",
     content |-> "Connection closed without receiving a response"]

\* C25: when the connection closed and nothing had been collected, the call
\* has ended with exactly one error element, its last, which says that the
\* connection closed without a response.
C25_ClosedEmptyIsError ==
    (ending = "closed" /\ NothingCollected)
    => (/\ pc = "done"
        /\ ErrorCount = 1
        /\ LastYield = ClosedWithoutResponse)

\* C25 witness: the prompt was sent, the server wrote lines that left
\* nothing collected, and the connection closed.
C25_Witness ==
    /\ ending = "closed"
    /\ NothingCollected
    /\ prompt_sent
    /\ Len(sent) >= 1
    /\ yielded = <<ClosedWithoutResponse>>

NumberOf(log, what) == Cardinality({k \in 1..Len(log) : log[k] = what})
ConnectionOpen == NumberOf(sse_log, "open") > NumberOf(sse_log, "close")

\* C27: once the caller has given the sequence up before its terminal
\* element, the connection is closed, and from then on the call POSTs no
\* request, yields no element and opens no connection.
C27_AbandonedCallStops ==
    /\ [](ending = "abandoned" => ~ConnectionOpen)
    /\ [][ending = "abandoned"
          => (posted' = posted /\ yielded' = yielded /\ sse_log' = sse_log)]_vars

\* C27 witness: a streaming call was given up after the prompt was sent and
\* an element was delivered; its connection was opened and closed.
C27_Witness ==
    /\ ending = "abandoned"
    /\ prompt_sent
    /\ Len(yielded) >= 1
    /\ sse_log = <<"open", "close">>

Posts(log, method) == Cardinality({k \in 1..Len(log) : log[k].method = method})

\* C28: one call opens at most one connection, POSTs each handshake request
\* at most once however many endpoint events it is given, and POSTs the
\* operational request at most once; a call ended by a failed transport
\* step (a handshake POST not accepted, the operational POST refused or
\* raising, the stream raising) has ended with one error element, its last.
C28_NoRetry ==
    /\ NumberOf(sse_log, "open") <= 1
    /\ Posts(posted, "initialize") <= 1
    /\ Posts(posted, "notifications/initialized") <= 1
    /\ Posts(posted, "tools/call") <= 1
    /\ ending \in {"handshake", "rejected", "exception"}
        => (/\ pc = "done"
            /\ ErrorCount = 1
            /\ LastYield.type = "error")

\* C28 witness: the call was given two endpoint events, did the handshake
\* and sent the prompt once, and ended when reading the stream raised.
C28_Witness ==
    /\ endpoint_events = 2
    /\ Len(posted) = 3
    /\ prompt_sent
    /\ Len(sent) >= 1
    /\ ending = "exception"
    /\ LastYield.type = "error"

Terminal(element) == element.type \in {"result", "error"}
TerminalCount == Cardinality({i \in 1..Len(yielded) : Terminal(yielded[i])})

\* C31: a call yields at most one terminal element (result or error); once
\* it has yielded one the call is over and that element is its last; and a
\* call that ran to its end (not given up by the caller) has yielded one.
C31_OneTerminalLast ==
    /\ TerminalCount <= 1
    /\ TerminalCount = 1 => (pc = "done" /\ Terminal(LastYield))
    /\ (pc = "done" /\ ending # "abandoned") => TerminalCount = 1

\* C31 witness: a streaming call delivered two elements and then, its task
\* complete, the result.
C31_Witness ==
    /\ stream
    /\ pc = "done"
    /\ ending = "returned"
    /\ Len(yielded) = 3
    /\ ~Terminal(yielded[1]) /\ ~Terminal(yielded[2])
    /\ yielded[3].type = "result"

\* C32: a call made with stream = False yields nothing but its terminal
\* element: nothing while it runs, one element once it is over.
C32_NoStreamOneElement ==
    ~stream =>
        /\ pc # "done" => yielded = <<>>
        /\ (pc = "done" /\ ending # "abandoned")
            => (Len(yielded) = 1 /\ Terminal(yielded[1]))
        /\ ending = "abandoned" => yielded = <<>>

\* C32 witness: with stream = False a native delta, a converted delta, and
\* then the response were received; one element was yielded.
C32_Witness ==
    /\ ~stream
    /\ Len(sent) = 3
    /\ IsNativeDelta(sent[1]) /\ Truthy(DeltaText(sent[1]))
    /\ IsWireDelta(sent[2]) /\ Truthy(DeltaText(sent[2]))
    /\ pc = "done"
    /\ Len(yielded) = 1
    /\ yielded[1].type = "result"

---------------------------------------------------------------------------
(* Claims about send_prompt's handling of further payloads (SpecEvents)    *)

IsMessageNotification(line) ==
    /\ line.valid /\ line.open = "{"
    /\ SentMethod(line) = <<"notifications", "message">>

NotifiedLogger(line) == loads(line).params.logger
NotifiedData(line) == loads(line).params.data

\* the type under which a notifications/message notification is to be
\* yielded, None for one that is not to be
LiveTypeOf(line) ==
    IF NotifiedLogger(line) = "reasoning" THEN "reasoning"
    ELSE IF Get(NotifiedData(line), "type", None) = "reasoning" THEN "reasoning"
    ELSE IF Get(NotifiedData(line), "type", None) = "text" THEN "chunk"
    ELSE IF NotifiedLogger(line) = "agent" /\ is_str(NotifiedData(line))
    THEN "chunk"
    ELSE None

LiveContentOf(line) ==
    IF is_str(NotifiedData(line)) THEN NotifiedData(line).py_str
    ELSE Get(NotifiedData(line), "content", "")

\* C33: in a streaming call, when the last event handled is a
\* notifications/message notification that is to be yielded, the last
\* element yielded is that notification's: its type (reasoning or chunk)
\* and its content.
C33_MessageNotificationYielded ==
    (/\ stream
     /\ Len(sent) >= 1
     /\ IsMessageNotification(LastSent)
     /\ LiveTypeOf(LastSent) # None)
    => (/\ Len(yielded) >= 1
        /\ LastYield.type = LiveTypeOf(LastSent)
        /\ LastYield.content = LiveContentOf(LastSent))

\* a payload that is not valid JSON, or valid JSON that is no object
Malformed(line) == ~line.valid \/ line.open = "["

\* C34: the step that handles an event whose payload is malformed yields
\* nothing and leaves the call running.
C34_MalformedSkipped ==
    [][(Len(sent') = Len(sent) + 1 /\ Malformed(sent'[Len(sent')]))
        => (yielded' = yielded /\ pc' = "connected")]_vars

---------------------------------------------------------------------------
(* Claims about health_check (SpecHealth)                                  *)

\* the tools/list round-trip to `server` returned a tool list
ReturnedTools(server) ==
    /\ server \in DOMAIN lt_outcome
    /\ lt_outcome[server].kind = "returned"
    /\ lt_outcome[server].result # PyNone
    /\ "tools" \in DOMAIN lt_outcome[server].result

\* C5: a server whose tools/list round-trip returned an empty tool list is
\* reported unhealthy; one that returned n >= 1 tools is reported healthy
\* with the count n.
C5_HealthByToolList ==
    \A server \in DOMAIN status :
        ReturnedTools(server) =>
            LET tools == lt_outcome[server].result.tools IN
            IF Len(tools) = 0
            THEN status[server] = UnhealthyStatus
            ELSE status[server] = HealthyStatus(Len(tools))

\* C29: the tool list a list_tools call returned is the result of the
\* response that carries the identifier of the call's own tools/list
\* request.
C29_ToolListOfOwnRequest ==
    \A server \in DOMAIN lt_outcome :
        ReturnedTools(server) =>
            lt_outcome[server].id = lt_outcome[server].request_id

Probed == {ServerNames[i] : i \in 1..(hc_next - 1)}

\* C35: the servers health_check has an entry for are exactly those whose
\* probe is over, whatever way it ended, in the registry's order; a probe
\* that raised or returned no tool list left an entry that is not
\* "healthy"; and as long as a server is left, its probe can start.  So
\* when the loop is over there is an entry for every server.
C35_EveryServerReported ==
    /\ hc_next \in 1..(Len(ServerNames) + 1)
    /\ DOMAIN status = Probed
    /\ DOMAIN lt_outcome = Probed
    /\ \A server \in Probed :
        ~ReturnedTools(server) =>
            status[server] \in {UnhealthyStatus, TimeoutStatus, ErrorStatus}
    /\ (hc_next <= Len(ServerNames) /\ lt_pc = "idle") => ENABLED ListToolsStart

\* C35 witness: the first probe raised (a rejected handshake), the second timed
\* out, the third's connection closed without a tools response; all three
\* servers are reported.
C35_Witness ==
    /\ hc_next = Len(ServerNames) + 1
    /\ lt_outcome["router"].kind = "raised"
    /\ lt_outcome["router"].exc = "Exception"
    /\ lt_outcome["office"].kind = "raised"
    /\ lt_outcome["office"].exc = "TimeoutError"
    /\ lt_outcome["analyst"].kind = "returned"
    /\ ~ReturnedTools("analyst")
    /\ status = [router |-> ErrorStatus, office |-> TimeoutStatus,
                 analyst |-> UnhealthyStatus]

\* ---------------------------------------------------------------------
\* Claims about the bridge's voice commands and sessions (SpecVoice)
\* ---------------------------------------------------------------------

\* the last voice command was answered with the agent's response
Answered ==
    \/ voice_reply.kind = "json"
    \/ voice_reply.kind = "stream" /\ voice_reply.ended = "result"

\* C36: when a voice command follows an answered command of the same
\* session (the session still holds an earlier turn), the context handed
\* to send_to_mcp ends with the assistant's response to the earlier command
\* and then the present user turn, whether that command was streamed or not.
C36_ContextHoldsEarlierTurns ==
    (/\ voice_pc = "awaiting"
     /\ Answered
     /\ voice_reply.session_id = voice_request.session_id
     /\ Len(voice_request.context) >= 2)
    => LET context == voice_request.context
           n == Len(context)
       IN  /\ context[n] = <<"User", voice_request.text>>
           /\ context[n - 1][1] # "User"
           /\ voice_reply.kind = "json" => context[n - 1][2] = voice_reply.response

\* the final text of a result of send_prompt
final_text(result) ==
    IF "message" \in DOMAIN result THEN result.message
    ELSE result.content[Len(result.content)].text

\* C37: the response text of a non-streaming voice command is the final
\* text of the result send_prompt produced, for each shape of result.
C37_ResponseIsFinalText ==
    voice_reply.kind = "json"
    => voice_reply.response = final_text(voice_reply.result)

\* C38: the server a voice command is routed to, by the wake-word map or
\* by the keywords of its text, is one of the client's servers.
C38_SelectedServerKnown ==
    voice_pc = "awaiting" => voice_request.server \in servers

\* C40: get_session returns a session only if it is not expired and then
\* its last_active is the present time; on an expired session it returns
\* None, and get_or_create_session then puts a new session with an empty
\* context in its place, which the command in flight finds holding its own
\* user turn only.
C40_ExpiredNeverReturned ==
    session_trace.op # "none" =>
        /\ session_trace.ret = "session"
            => ~session_trace.stale /\ session_trace.renewed
        /\ (session_trace.op = "get_session" /\ session_trace.stale)
            => session_trace.ret = None
        /\ (session_trace.op = "get_or_create_session" /\ session_trace.stale)
            => /\ session_trace.ret = "created"
               /\ session_trace.fresh
               /\ (/\ voice_pc = "awaiting"
                   /\ session_trace.session_id \in DOMAIN sessions)
                  => sessions[session_trace.session_id].context =
                        <<ConversationTurn("user", voice_request.text,
                                           voice_request.server)>>

\* C40 witness: after an answered command the session expired, and the
\* next command's get_or_create_session replaced it.
C40_Witness ==
    /\ voice_pc = "awaiting"
    /\ voice_reply.kind = "json"
    /\ session_trace.op = "get_or_create_session"
    /\ session_trace.stale
    /\ session_trace.ret = "created"
    /\ session_trace.fresh
    /\ Len(sessions[session_trace.session_id].context) = 1

\* ---------------------------------------------------------------------
\* Claim about the bridge's email routing (SpecEmail)
\* ---------------------------------------------------------------------

\* C39: a message id that was routed is not routed again before
\* idempotency_window (24 hours) has passed, whatever the notifications
\* and the times between them, and whichever requests overlap.
C39_NoRerouteWithinWindow ==
    \A i, j \in 1..Len(routed) :
        (i < j /\ routed[i][1] = routed[j][1])
        => routed[j][2] - routed[i][2] >= idempotency_window

=============================================================================
